---- MODULE Spec2Model ----
(***************************************************************************)
(* media-files-organizer: the TV-show organize flow of cli.py (main and    *)
(* tvshow) and the filename parsers it is built on.                        *)
(*                                                                         *)
(* Strings are sequences of one-character strings, so that the regular     *)
(* expressions and the os.path helpers are computed character by           *)
(* character.                                                              *)
(***************************************************************************)
EXTENDS Integers, Sequences, FiniteSets, TLC

VARIABLES
    \* ---- infer_episode_number_from_filename, called on its own ----
    ep_call,        \* "idle" before the call, "returned" after it
    ep_filename,    \* the argument
    ep_result,      \* what the call produced
    \* ---- infer_season_from_filenames, called on its own ----
    se_call,
    se_files,       \* media_files
    se_expected,    \* season_to_test_against
    se_result,
    \* ---- _sanitize_filename, called on its own ----
    san_call,
    san_filename,   \* the argument
    san_result,
    \* ---- create_new_episode_filename, called on its own ----
    cmp_call,
    cmp_args,       \* data, season, ext, suffix
    cmp_result,     \* (new_filename, naked_filename)
    \* ---- PTDubMetadata.fetch_actors, called on its own ----
    pt_call,
    pt_atores,      \* data["atores"] of the scraped season
    pt_scraped,     \* the URLs scrape_actor was called with, in call order
    pt_result,
    \* ---- FileInfo.get_media_info, called on its own ----
    fi_call,
    fi_duration,    \* track.duration of the video track, in milliseconds
    fi_result,      \* the duration fields of video_info
    \* ---- InputHandler.get_confirmation, one call ----
    in_call,        \* "reading" inside the while loop, "returned" after it
    user_input,     \* the local variable of that name
    in_chars,       \* the characters captured so far, the last one being char
    confirmed,      \* the value returned
    \* ---- one run of main() / tvshow() ----
    pc,             \* the statement the run is at; "exit" once the process ended
    ending,         \* how the run ended: "" while it runs
    exit_code,      \* the process exit status, None while it runs
    dir_exists,     \* os.path.isdir(directory)
    fs,             \* the names present in the target directory
    fs0,            \* the names present when the run started
    args,           \* argparse.Namespace
    media_files,    \* list_supported_files(...)
    season,         \* the resolved season
    episode_filelist,
    data,           \* the Season fetched from TMDB
    warnings,       \* the local flag of tvshow()
    count_fails,
    idx,            \* position of the running for loop in episode_filelist
    gates,          \* the confirmation prompts shown so far, with the answers
    renames,        \* the os.rename calls made so far, with their outcome
    written,        \* the files written so far (open(..., "w")), in order
    downloads,      \* the requests.get calls of download_image so far
    reported,       \* errors and warnings printed so far
    rename_row,     \* the "File renaming:" row of the status table
    db_actors,      \* the actors of the season in the local store ([] when none)
    rendered        \* the calls of the NFO renderers so far: for which file (0:
                    \* the season), with which actor list and file path, and
                    \* whether the call raised

ep_vars == <<ep_call, ep_filename, ep_result>>
se_vars == <<se_call, se_files, se_expected, se_result>>
run_vars == <<pc, ending, exit_code, dir_exists, fs, fs0, args, media_files, season,
              episode_filelist, data, warnings, count_fails, idx, gates, renames,
              written, downloads, reported, rename_row, db_actors, rendered>>
san_vars == <<san_call, san_filename, san_result>>
cmp_vars == <<cmp_call, cmp_args, cmp_result>>
pt_vars == <<pt_call, pt_atores, pt_scraped, pt_result>>
fi_vars == <<fi_call, fi_duration, fi_result>>
in_vars == <<in_call, user_input, in_chars, confirmed>>
ext_vars == <<pt_vars, fi_vars, in_vars>>
lib_vars == <<san_vars, cmp_vars, ext_vars>>
vars == <<ep_vars, se_vars, lib_vars, run_vars>>

\* Python's None for a string-valued field
NoValue == "None"

\* an optional integer or record: None is the empty tuple, a value v is <<v>>
None == <<>>
Some(v) == <<v>>

(***************************************************************************)
(* Characters                                                              *)
(***************************************************************************)
Digits == {"0", "1", "2", "3", "4", "5", "6", "7", "8", "9"}

Letters ==
    {"a", "b", "c", "d", "e", "f", "g", "h", "i", "j", "k", "l", "m",
     "n", "o", "p", "q", "r", "s", "t", "u", "v", "w", "x", "y", "z",
     "A", "B", "C", "D", "E", "F", "G", "H", "I", "J", "K", "L", "M",
     "N", "O", "P", "Q", "R", "S", "T", "U", "V", "W", "X", "Y", "Z"}

\* \d
IsDigit(c) == c \in Digits

\* \w
IsWord(c) == c \in Digits \cup Letters \cup {"_"}

\* \s
Whitespace == {" ", "\t", "\n", "\r"}

IsSpace(c) == c \in Whitespace

DigitVal(c) ==
    CASE c = "0" -> 0 [] c = "1" -> 1 [] c = "2" -> 2 [] c = "3" -> 3
      [] c = "4" -> 4 [] c = "5" -> 5 [] c = "6" -> 6 [] c = "7" -> 7
      [] c = "8" -> 8 [] c = "9" -> 9

\* int(str) on a non-empty string of decimal digits
RECURSIVE ToInt(_)
ToInt(ds) ==
    IF ds = <<>> THEN 0
    ELSE 10 * ToInt(SubSeq(ds, 1, Len(ds) - 1)) + DigitVal(ds[Len(ds)])

SetMin(S) == CHOOSE x \in S : \A y \in S : x <= y
SetMax(S) == CHOOSE x \in S : \A y \in S : y <= x

(***************************************************************************)
(* Regular-expression building blocks.  A match attempt at position i      *)
(* yields the sequence of captured groups wrapped in a one-element tuple   *)
(* (<<groups>>), or <<>> when the pattern does not match at i.             *)
(***************************************************************************)
NoMatchAt == <<>>

\* s[i .. i+k-1] exists and is all digits
DigitsAt(s, i, k) ==
    /\ i >= 1
    /\ i + k - 1 <= Len(s)
    /\ \A j \in i..(i + k - 1) : IsDigit(s[j])

CharAt(s, i, cs) == i >= 1 /\ i <= Len(s) /\ s[i] \in cs

\* \b at the gap before position i (between s[i-1] and s[i])
WordBoundary(s, i) ==
    LET before == i - 1 >= 1 /\ i - 1 <= Len(s) /\ IsWord(s[i - 1])
        after  == i >= 1 /\ i <= Len(s) /\ IsWord(s[i])
    IN  before # after

\* the number of whitespace characters starting at position i (greedy \s*)
RECURSIVE SpaceRun(_, _)
SpaceRun(s, i) ==
    IF i <= Len(s) /\ IsSpace(s[i]) THEN 1 + SpaceRun(s, i + 1) ELSE 0

\* re.search: the attempt at the leftmost position where the pattern matches
Search(At(_, _), s) ==
    LET hits == {i \in 1..Len(s) : At(s, i) # NoMatchAt}
    IN  IF hits = {} THEN NoMatchAt ELSE At(s, SetMin(hits))

(***************************************************************************)
(* MediaFilesOrganizer.episode_num_patterns (cli.py 35-43), one operator   *)
(* per compiled pattern, in list order.  \d{1,2} is greedy: two digits are *)
(* tried before one.                                                       *)
(***************************************************************************)

\* r"(?:S\d{1,2}E(\d{1,2}))"
PatSxxExxAt(s, i) ==
    LET tail(k1) == CharAt(s, i + 1 + k1, {"E"}) /\ DigitsAt(s, i + 2 + k1, 1)
        k1  == IF DigitsAt(s, i + 1, 2) /\ tail(2) THEN 2
               ELSE IF DigitsAt(s, i + 1, 1) /\ tail(1) THEN 1 ELSE 0
        g   == i + 2 + k1
        k2  == IF DigitsAt(s, g, 2) THEN 2 ELSE 1
    IN  IF CharAt(s, i, {"S"}) /\ k1 > 0
        THEN << <<SubSeq(s, g, g + k2 - 1)>> >>
        ELSE NoMatchAt

\* r"\bE(\d{1,2})\b"
PatExxAt(s, i) ==
    LET g  == i + 1
        k  == IF DigitsAt(s, g, 2) /\ WordBoundary(s, g + 2) THEN 2
              ELSE IF DigitsAt(s, g, 1) /\ WordBoundary(s, g + 1) THEN 1 ELSE 0
    IN  IF WordBoundary(s, i) /\ CharAt(s, i, {"E"}) /\ k > 0
        THEN << <<SubSeq(s, g, g + k - 1)>> >>
        ELSE NoMatchAt

\* "E", the given second letter, an optional ".", then 1-2 captured digits
EpDotAt(s, i, second) ==
    LET g  == IF CharAt(s, i + 2, {"."}) /\ DigitsAt(s, i + 3, 1) THEN i + 3 ELSE i + 2
        k  == IF DigitsAt(s, g, 2) THEN 2 ELSE 1
    IN  IF CharAt(s, i, {"E"}) /\ CharAt(s, i + 1, {second}) /\ DigitsAt(s, g, 1)
        THEN << <<SubSeq(s, g, g + k - 1)>> >>
        ELSE NoMatchAt

\* r"Ep\.?(\d{1,2})"
PatEpAt(s, i) == EpDotAt(s, i, "p")

\* r"EP\.?(\d{1,2})"
PatEPAt(s, i) == EpDotAt(s, i, "P")

\* r"^\d{1,2}\s+" : anchored at the start, and it has no capture group
PatLeadingAt(s, i) ==
    LET k == IF DigitsAt(s, 1, 2) /\ CharAt(s, 3, Whitespace) THEN 2
             ELSE IF DigitsAt(s, 1, 1) /\ CharAt(s, 2, Whitespace) THEN 1
             ELSE 0
    IN  IF i = 1 /\ k > 0 THEN << <<>> >> ELSE NoMatchAt

\* r"\b(\d{1,2})\b"
PatStandaloneAt(s, i) ==
    LET k == IF DigitsAt(s, i, 2) /\ WordBoundary(s, i + 2) THEN 2
             ELSE IF DigitsAt(s, i, 1) /\ WordBoundary(s, i + 1) THEN 1 ELSE 0
    IN  IF WordBoundary(s, i) /\ k > 0
        THEN << <<SubSeq(s, i, i + k - 1)>> >>
        ELSE NoMatchAt

\* r"-\s*(\d{1,2})\s"
PatDashAt(s, i) ==
    LET g == i + 1 + SpaceRun(s, i + 1)
        k == IF DigitsAt(s, g, 2) /\ CharAt(s, g + 2, Whitespace) THEN 2
             ELSE IF DigitsAt(s, g, 1) /\ CharAt(s, g + 1, Whitespace) THEN 1
             ELSE 0
    IN  IF CharAt(s, i, {"-"}) /\ k > 0
        THEN << <<SubSeq(s, g, g + k - 1)>> >>
        ELSE NoMatchAt

NumPatterns == 7

\* episode_num_patterns[n - 1].search(s)
PatternSearch(n, s) ==
    CASE n = 1 -> Search(PatSxxExxAt, s)
      [] n = 2 -> Search(PatExxAt, s)
      [] n = 3 -> Search(PatEpAt, s)
      [] n = 4 -> Search(PatEPAt, s)
      [] n = 5 -> Search(PatLeadingAt, s)
      [] n = 6 -> Search(PatStandaloneAt, s)
      [] n = 7 -> Search(PatDashAt, s)

(***************************************************************************)
(* os.path helpers (posix)                                                 *)
(***************************************************************************)
LastIndexOf(s, c) ==
    LET at == {i \in 1..Len(s) : s[i] = c}
    IN  IF at = {} THEN 0 ELSE SetMax(at)

\* os.path.basename
basename(p) == SubSeq(p, LastIndexOf(p, "/") + 1, Len(p))

RECURSIVE StripTrailing(_, _)
StripTrailing(s, c) ==
    IF s # <<>> /\ s[Len(s)] = c THEN StripTrailing(SubSeq(s, 1, Len(s) - 1), c) ELSE s

\* os.path.dirname
dirname(p) ==
    LET head == SubSeq(p, 1, LastIndexOf(p, "/"))
    IN  IF head # <<>> /\ \E j \in 1..Len(head) : head[j] # "/"
        THEN StripTrailing(head, "/")
        ELSE head

\* os.path.splitext(p)[1]: from the last dot of the last component, unless
\* that dot is among the component's leading dots
splitext_ext(p) ==
    LET sep   == LastIndexOf(p, "/")
        dot   == LastIndexOf(p, ".")
        other == {j \in (sep + 1)..(dot - 1) : p[j] # "."}
    IN  IF dot > sep /\ other # {} THEN SubSeq(p, dot, Len(p)) ELSE <<>>

\* os.path.join(a, b) for a relative b
path_join(a, b) ==
    IF a = <<>> \/ a[Len(a)] = "/" THEN a \o b ELSE a \o <<"/">> \o b

(***************************************************************************)
(* MediaFilesOrganizer.infer_episode_number_from_filename (cli.py 205-219) *)
(* The outcome is a record: kind "ok" with the EpFile it returns, or the   *)
(* exception it raises.                                                    *)
(***************************************************************************)
EpFile(filename, groups) ==
    [episode_num       |-> ToInt(groups[1]),
     path              |-> dirname(filename),
     ext               |-> splitext_ext(filename),
     original_filename |-> basename(filename),
     naked_filename    |-> <<>>,
     new_filename      |-> <<>>,
     status            |-> NoValue,
     data              |-> None]

\* the index of the first pattern, in list order, that matches (0: none)
FirstMatchingPattern(filename) ==
    LET hits == {n \in 1..NumPatterns : PatternSearch(n, filename) # NoMatchAt}
    IN  IF hits = {} THEN 0 ELSE SetMin(hits)

infer_episode_number_from_filename(filename) ==
    LET n == FirstMatchingPattern(filename)
    IN  IF n = 0 THEN [kind |-> "ValueError"]
        ELSE LET groups == PatternSearch(n, filename)[1]
             IN  \* match.group(1) on a pattern without a group raises IndexError
                 IF Len(groups) < 1 THEN [kind |-> "IndexError"]
                 ELSE [kind |-> "ok", file |-> EpFile(filename, groups)]


(***************************************************************************)
(* MediaFilesOrganizer.infer_season_from_filenames (cli.py 187-203)        *)
(***************************************************************************)

\* re.compile(r'(?:S|T)(\d{1,2})E\d{1,2}', re.IGNORECASE)
SeasonPatternAt(s, i) ==
    LET tail(k1) == CharAt(s, i + 1 + k1, {"E", "e"}) /\ DigitsAt(s, i + 2 + k1, 1)
        k  == IF DigitsAt(s, i + 1, 2) /\ tail(2) THEN 2
              ELSE IF DigitsAt(s, i + 1, 1) /\ tail(1) THEN 1 ELSE 0
    IN  IF CharAt(s, i, {"S", "s", "T", "t"}) /\ k > 0
        THEN << <<SubSeq(s, i + 1, i + k)>> >>
        ELSE NoMatchAt

\* the loop as it would be if a later match that disagrees were skipped instead
\* of raising: C6 does not hold of it
RECURSIVE SeasonLoopFirstWins(_, _, _)
SeasonLoopFirstWins(files, i, cur) ==
    IF i > Len(files) THEN
        IF cur = None
        THEN [kind |-> "ValueError", error |-> "SeasonNotInferable"]
        ELSE [kind |-> "ok", season |-> cur[1]]
    ELSE
        LET match == Search(SeasonPatternAt, basename(files[i]))
        IN  IF match # NoMatchAt /\ cur = None
            THEN SeasonLoopFirstWins(files, i + 1, Some(ToInt(match[1][1])))
            ELSE SeasonLoopFirstWins(files, i + 1, cur)

\* the for loop from file number i on, with the local variable season
RECURSIVE SeasonLoop(_, _, _)
SeasonLoop(files, i, cur) ==
    IF i > Len(files) THEN
        IF cur = None
        THEN [kind |-> "ValueError", error |-> "SeasonNotInferable"]
        ELSE [kind |-> "ok", season |-> cur[1]]
    ELSE
        LET file  == files[i]
            match == Search(SeasonPatternAt, basename(file))
        IN  IF match = NoMatchAt THEN SeasonLoop(files, i + 1, cur)
            ELSE LET current_season == ToInt(match[1][1])
                 IN  IF cur = None
                     THEN SeasonLoop(files, i + 1, Some(current_season))
                     ELSE IF cur[1] # current_season
                     THEN [kind |-> "ValueError", error |-> "MixedSeasons",
                           found |-> cur[1], current |-> current_season,
                           culprit |-> file]
                     ELSE SeasonLoop(files, i + 1, cur)

\* the function as it would be if its last test were `if not season:`, which
\* is also true of season 0: C8 does not hold of it
infer_season_testing_truth(files, season_to_test_against) ==
    LET r == SeasonLoop(files, 1, season_to_test_against)
    IN  IF r.kind = "ok" /\ r.season = 0
        THEN [kind |-> "ValueError", error |-> "SeasonNotInferable"]
        ELSE r

infer_season_from_filenames(files, season_to_test_against) ==
    SeasonLoop(files, 1, season_to_test_against)


(***************************************************************************)
(* Idle values: a specification that exercises one part of the program     *)
(* leaves the variables of the other parts at these values.                *)
(***************************************************************************)
EpIdle ==
    /\ ep_call = "unused"
    /\ ep_filename = <<>>
    /\ ep_result = [kind |-> "none"]

SeIdle ==
    /\ se_call = "unused"
    /\ se_files = <<>>
    /\ se_expected = None
    /\ se_result = [kind |-> "none"]

SanIdle ==
    /\ san_call = "unused"
    /\ san_filename = <<>>
    /\ san_result = <<>>

CmpIdle ==
    /\ cmp_call = "unused"
    /\ cmp_args = None
    /\ cmp_result = None

PtIdle ==
    /\ pt_call = "unused"
    /\ pt_atores = <<>>
    /\ pt_scraped = <<>>
    /\ pt_result = [kind |-> "none"]

FiIdle ==
    /\ fi_call = "unused"
    /\ fi_duration = 0
    /\ fi_result = None

InIdle ==
    /\ in_call = "unused"
    /\ user_input = <<>>
    /\ in_chars = <<>>
    /\ confirmed = None

ExtIdle == PtIdle /\ FiIdle /\ InIdle

LibIdle == SanIdle /\ CmpIdle /\ ExtIdle

RunIdle ==
    /\ pc = "unused"
    /\ ending = ""
    /\ exit_code = None
    /\ dir_exists = FALSE
    /\ fs = {}
    /\ fs0 = {}
    /\ args = None
    /\ media_files = <<>>
    /\ season = None
    /\ episode_filelist = <<>>
    /\ data = None
    /\ warnings = FALSE
    /\ count_fails = 0
    /\ idx = 0
    /\ gates = <<>>
    /\ renames = <<>>
    /\ written = <<>>
    /\ downloads = <<>>
    /\ reported = <<>>
    /\ rename_row = [text |-> ""]
    /\ db_actors = <<>>
    /\ rendered = <<>>

(***************************************************************************)
(* SpecEpisode: infer_episode_number_from_filename applied to every string *)
(* of at most MaxNameLen characters over EpisodeAlphabet.                  *)
(***************************************************************************)
MaxNameLen == 5

EpisodeAlphabet == {"S", "E", "p", ".", "-", " ", "0", "1"}

\* every sequence of at most n elements of S
SeqsUpTo(S, n) == UNION {[1..k -> S] : k \in 0..n}

EpInit ==
    /\ ep_call = "idle"
    /\ ep_filename \in SeqsUpTo(EpisodeAlphabet, MaxNameLen)
    /\ ep_result = [kind |-> "none"]
    /\ SeIdle
    /\ LibIdle
    /\ RunIdle

CallInferEpisode ==
    /\ ep_call = "idle"
    /\ ep_result' = infer_episode_number_from_filename(ep_filename)
    /\ ep_call' = "returned"
    /\ UNCHANGED <<ep_filename, se_vars, lib_vars, run_vars>>

EpNext == CallInferEpisode

SpecEpisode == EpInit /\ [][EpNext]_vars

(***************************************************************************)
(* SpecSeason: infer_season_from_filenames applied to every list of at     *)
(* most MaxSeasonFiles paths drawn from SeasonPaths, with and without an   *)
(* expected season.                                                        *)
(***************************************************************************)
MaxSeasonFiles == 3

SeasonPaths ==
    {<<"A", ".", "S", "0", "1", "E", "0", "1", ".", "m", "k", "v">>,
     <<"A", ".", "S", "0", "2", "E", "0", "1", ".", "m", "k", "v">>,
     <<"B", ".", "S", "1", "E", "0", "2", ".", "a", "v", "i">>,
     <<"a", ".", "s", "0", "1", "e", "0", "3", ".", "m", "k", "v">>,
     <<"A", ".", "T", "0", "2", "E", "0", "1", ".", "m", "k", "v">>,
     <<"S", "0", "2", "E", "0", "9", "/", "A", ".", "S", "0", "1", "E", "0", "4", ".", "m", "k", "v">>,
     <<"n", "o", "t", "e", "s", ".", "m", "k", "v">>}

ExpectedSeasons == {None, Some(0), Some(1), Some(2), Some(-1)}

SeInit ==
    /\ se_call = "idle"
    /\ se_files \in SeqsUpTo(SeasonPaths, MaxSeasonFiles)
    /\ se_expected \in ExpectedSeasons
    /\ se_result = [kind |-> "none"]
    /\ EpIdle
    /\ LibIdle
    /\ RunIdle

CallInferSeason ==
    /\ se_call = "idle"
    /\ se_result' = infer_season_from_filenames(se_files, se_expected)
    /\ se_call' = "returned"
    /\ UNCHANGED <<se_files, se_expected, ep_vars, lib_vars, run_vars>>

SeNext == CallInferSeason

SpecSeason == SeInit /\ [][SeNext]_vars


(***************************************************************************)
(* Filename composer (cli.py 221-240)                                      *)
(***************************************************************************)
RECURSIVE Filter(_, _)
Filter(s, drop) ==
    IF s = <<>> THEN <<>>
    ELSE (IF s[1] \in drop THEN <<>> ELSE <<s[1]>>) \o Filter(Tail(s), drop)

\* the character class of re.sub(r'[\/:*?"<>|]', '', filename): in it \/ is
\* an escaped slash
ForbiddenChars == {"/", ":", "*", "?", "\"", "<", ">", "|"}

\* MediaFilesOrganizer._sanitize_filename
sanitize_filename(filename) == Filter(filename, ForbiddenChars)

DigitChar(d) ==
    CASE d = 0 -> "0" [] d = 1 -> "1" [] d = 2 -> "2" [] d = 3 -> "3"
      [] d = 4 -> "4" [] d = 5 -> "5" [] d = 6 -> "6" [] d = 7 -> "7"
      [] d = 8 -> "8" [] d = 9 -> "9"

\* str(n) for n >= 0
RECURSIVE NatToStr(_)
NatToStr(n) ==
    IF n < 10 THEN <<DigitChar(n)>> ELSE NatToStr(n \div 10) \o <<DigitChar(n % 10)>>

\* f"{n:02}": zero-padded to a width of two, the sign counted in the width
Format02(n) ==
    IF n < 0 THEN <<"-">> \o NatToStr(-n)
    ELSE IF n < 10 THEN <<"0">> \o NatToStr(n)
    ELSE NatToStr(n)

\* the composer as it would be without the two calls of lines 238-239 on the
\* composed names: C13 does not hold of it
create_new_episode_filename_as_composed(episode, season_num, ext, suffix) ==
    LET stem == IF suffix # None /\ suffix[1] # <<>>
                THEN sanitize_filename(episode.series_name) \o <<" ">> \o suffix[1]
                ELSE sanitize_filename(episode.series_name)
        naked == stem \o <<".", "S">> \o Format02(season_num) \o <<"E">>
                      \o Format02(episode.episode_number)
                      \o <<".">> \o sanitize_filename(episode.episode_name)
    IN  <<naked \o ext, naked>>

\* MediaFilesOrganizer.create_new_episode_filename: <<new_filename, naked_filename>>
create_new_episode_filename(episode, season_num, ext, suffix) ==
    LET series_name    == sanitize_filename(episode.series_name)
        episode_name   == sanitize_filename(episode.episode_name)
        episode_number == Format02(episode.episode_number)
        season_number  == Format02(season_num)
        stem == IF suffix # None /\ suffix[1] # <<>>
                THEN series_name \o <<" ">> \o suffix[1]
                ELSE series_name
        naked == stem \o <<".", "S">> \o season_number \o <<"E">> \o episode_number
                      \o <<".">> \o episode_name
    IN  <<sanitize_filename(naked \o ext), sanitize_filename(naked)>>

(***************************************************************************)
(* SpecSanitize: _sanitize_filename applied to every string of at most     *)
(* MaxSanitizeLen characters over SanitizeAlphabet.                        *)
(***************************************************************************)
MaxSanitizeLen == 3

SanitizeAlphabet == {"/", "\\", ":", "*", "?", "\"", "<", ">", "|", "a", " ", "."}

SanInit ==
    /\ san_call = "idle"
    /\ san_filename \in SeqsUpTo(SanitizeAlphabet, MaxSanitizeLen)
    /\ san_result = <<>>
    /\ EpIdle
    /\ SeIdle
    /\ CmpIdle
    /\ ExtIdle
    /\ RunIdle

CallSanitize ==
    /\ san_call = "idle"
    /\ san_result' = sanitize_filename(san_filename)
    /\ san_call' = "returned"
    /\ UNCHANGED <<san_filename, cmp_vars, ext_vars, ep_vars, se_vars, run_vars>>

SanNext == CallSanitize

SpecSanitize == SanInit /\ [][SanNext]_vars

(***************************************************************************)
(* SpecCompose: create_new_episode_filename applied to episode records,    *)
(* seasons, extensions and suffixes drawn from small sets.                 *)
(***************************************************************************)
MaxNumber == 10

\* series and episode names, with and without characters the sanitizer drops
ComposeNames == {<<"A">>, <<"A", ":", "b">>, <<"a", "/", "?">>, <<"x", " ", "y">>}

ComposeExts == {<<".", "m", "k", "v">>, <<>>}

ComposeSuffixes == {None, Some(<<>>), Some(<<"P", "T">>), Some(<<"a", "|", "b">>)}

ComposeArgs ==
    [series_name : ComposeNames, episode_name : ComposeNames,
     episode_number : 0..MaxNumber, season : 0..MaxNumber,
     ext : ComposeExts, suffix : ComposeSuffixes]

CmpInit ==
    /\ cmp_call = "idle"
    /\ cmp_args \in {Some(a) : a \in ComposeArgs}
    /\ cmp_result = None
    /\ EpIdle
    /\ SeIdle
    /\ SanIdle
    /\ ExtIdle
    /\ RunIdle

CallCompose ==
    /\ cmp_call = "idle"
    /\ LET a == cmp_args[1]
       IN  cmp_result' = Some(create_new_episode_filename(
                                 [series_name |-> a.series_name,
                                  episode_name |-> a.episode_name,
                                  episode_number |-> a.episode_number],
                                 a.season, a.ext, a.suffix))
    /\ cmp_call' = "returned"
    /\ UNCHANGED <<cmp_args, san_vars, ext_vars, ep_vars, se_vars, run_vars>>

CmpNext == CallCompose

SpecCompose == CmpInit /\ [][CmpNext]_vars

\* str.lower() on the letters
UpperCase == <<"A", "B", "C", "D", "E", "F", "G", "H", "I", "J", "K", "L", "M",
               "N", "O", "P", "Q", "R", "S", "T", "U", "V", "W", "X", "Y", "Z">>
LowerCase == <<"a", "b", "c", "d", "e", "f", "g", "h", "i", "j", "k", "l", "m",
               "n", "o", "p", "q", "r", "s", "t", "u", "v", "w", "x", "y", "z">>

LowerChar(c) ==
    LET at == {k \in 1..Len(UpperCase) : UpperCase[k] = c}
    IN  IF at = {} THEN c ELSE LowerCase[CHOOSE k \in at : TRUE]

lower(s) == [k \in 1..Len(s) |-> LowerChar(s[k])]


(***************************************************************************)
(* PTDubMetadata (ptdub_metadata.py)                                       *)
(***************************************************************************)
UpperChar(c) ==
    LET at == {k \in 1..Len(LowerCase) : LowerCase[k] = c}
    IN  IF at = {} THEN c ELSE UpperCase[CHOOSE k \in at : TRUE]

\* "/config/data/metadata/People/"
PeopleDir ==
    <<"/", "c", "o", "n", "f", "i", "g", "/", "d", "a", "t", "a", "/",
      "m", "e", "t", "a", "d", "a", "t", "a", "/", "P", "e", "o", "p", "l", "e", "/">>

\* "/folder.jpg"
FolderJpg == <<"/", "f", "o", "l", "d", "e", "r", ".", "j", "p", "g">>

\* f"/config/data/metadata/People/{nome[0].upper()}/{nome}/folder.jpg" for a
\* non-empty nome; nome[0] raises IndexError on an empty one
thumb_of(nome) == PeopleDir \o <<UpperChar(nome[1])>> \o <<"/">> \o nome \o FolderJpg

\* PTScrapper.scrape_actor, standing for the scrapper behind the class: the
\* page of each actor URL
scrape_actor(url) ==
    IF url = "u1"
    THEN [nome |-> <<"m", "c">>, nome_completo |-> "Maria dos Anjos Costa",
          foto_perfil |-> "maria.jpg"]
    ELSE [nome |-> <<"j", "s">>, nome_completo |-> NoValue, foto_perfil |-> NoValue]

\* PTDubMetadata.fetch_actor (ptdub_metadata.py 39-59)
fetch_actor(url, role) ==
    LET scraped == scrape_actor(url)
    IN  [name          |-> scraped.nome,
         original_name |-> scraped.nome_completo,
         type          |-> "actor",
         role          |-> role,
         photo         |-> scraped.foto_perfil,
         thumb         |-> thumb_of(scraped.nome)]

\* the for loop of fetch_actors (ptdub_metadata.py 75-93) from actor number i
\* on: parsed_actors so far, and the scrape_actor calls made so far
RECURSIVE FetchActorsLoop(_, _, _, _)
FetchActorsLoop(atores, i, parsed_actors, calls) ==
    IF i > Len(atores)
    THEN [kind |-> "ok", actors |-> parsed_actors, scraped |-> calls]
    ELSE LET actor == atores[i]
             role  == IF actor.role = None THEN "Unknown" ELSE actor.role[1]
         IN  IF actor.url # None
             THEN FetchActorsLoop(atores, i + 1,
                                  Append(parsed_actors, fetch_actor(actor.url[1], role)),
                                  Append(calls, actor.url[1]))
             ELSE IF actor.nome = <<>>
             THEN \* actor['nome'][0] on the empty string
                  [kind |-> "IndexError", scraped |-> calls]
             ELSE FetchActorsLoop(atores, i + 1,
                                  Append(parsed_actors,
                                         [name          |-> actor.nome,
                                          original_name |-> NoValue,
                                          type          |-> "actor",
                                          role          |-> role,
                                          photo         |-> NoValue,
                                          thumb         |-> thumb_of(actor.nome)]),
                                  calls)

\* PTDubMetadata.fetch_actors (ptdub_metadata.py 61-95) on the atores of the
\* scraped season
fetch_actors(atores) == FetchActorsLoop(atores, 1, <<>>, <<>>)

(***************************************************************************)
(* SpecFetchActors: fetch_actors applied to every list of at most          *)
(* MaxActors scraped actors.  PTScrapper._parse_actor_column                *)
(* (pt_scrapper.py 212-253) gives an actor a URL or None, the role text of *)
(* its row, and the cell text without its parenthesised part as name,      *)
(* which is empty for a cell such as "(voz)".                              *)
(***************************************************************************)
MaxActors == 2

ScrapedNames == {<<"m", "a">>, <<"c">>, <<>>}

ScrapedUrls == {None, Some("u1"), Some("u2")}

ScrapedRoles == {None, Some("Villain")}

ScrapedActors == [url : ScrapedUrls, nome : ScrapedNames, role : ScrapedRoles]

PtInit ==
    /\ pt_call = "idle"
    /\ pt_atores \in SeqsUpTo(ScrapedActors, MaxActors)
    /\ pt_scraped = <<>>
    /\ pt_result = [kind |-> "none"]
    /\ EpIdle
    /\ SeIdle
    /\ SanIdle
    /\ CmpIdle
    /\ FiIdle
    /\ InIdle
    /\ RunIdle

CallFetchActors ==
    /\ pt_call = "idle"
    /\ LET r == fetch_actors(pt_atores)
       IN  /\ pt_result' = IF r.kind = "ok"
                           THEN [kind |-> "ok", actors |-> r.actors]
                           ELSE [kind |-> r.kind]
           /\ pt_scraped' = r.scraped
    /\ pt_call' = "returned"
    /\ UNCHANGED <<pt_atores, fi_vars, in_vars, san_vars, cmp_vars, ep_vars, se_vars,
                   run_vars>>

PtNext == CallFetchActors

SpecFetchActors == PtInit /\ [][PtNext]_vars


(***************************************************************************)
(* FileInfo.get_media_info (fileinfo.py 144-164): the duration fields of   *)
(* the video track.  float(track.duration) is exact for an integer below   *)
(* 2^53 and int() truncates, so for a duration d >= 0 in milliseconds      *)
(* int(float(d) / 1000) is the integer quotient.                           *)
(***************************************************************************)

\* the fields as they would be if the seconds were rounded to the nearest
\* one: C24 does not hold of it
video_duration_rounding(track_duration) ==
    LET duration_in_seconds == (track_duration + 500) \div 1000
        duration == NatToStr(duration_in_seconds \div 60) \o <<"m", " ">>
                       \o NatToStr(duration_in_seconds % 60) \o <<"s">>
    IN  [duration |-> duration, durationinseconds |-> duration_in_seconds]

\* lines 146-147 and the two fields of lines 161-162
video_duration(track_duration) ==
    LET duration_in_seconds == track_duration \div 1000
        duration == NatToStr(duration_in_seconds \div 60) \o <<"m", " ">>
                       \o NatToStr(duration_in_seconds % 60) \o <<"s">>
    IN  [duration |-> duration, durationinseconds |-> duration_in_seconds]

(***************************************************************************)
(* SpecMediaInfo: get_media_info on a file with one video track whose      *)
(* duration is q seconds and r milliseconds, q up to MaxSeconds.           *)
(***************************************************************************)
MaxSeconds == 125

Millis == {0, 1, 500, 999}

Durations == {1000 * q + r : q \in 0..MaxSeconds, r \in Millis}

FiInit ==
    /\ fi_call = "idle"
    /\ fi_duration \in Durations
    /\ fi_result = None
    /\ EpIdle
    /\ SeIdle
    /\ SanIdle
    /\ CmpIdle
    /\ PtIdle
    /\ InIdle
    /\ RunIdle

CallGetMediaInfo ==
    /\ fi_call = "idle"
    /\ fi_result' = Some(video_duration(fi_duration))
    /\ fi_call' = "returned"
    /\ UNCHANGED <<fi_duration, pt_vars, in_vars, san_vars, cmp_vars, ep_vars, se_vars,
                   run_vars>>

FiNext == CallGetMediaInfo

SpecMediaInfo == FiInit /\ [][FiNext]_vars


(***************************************************************************)
(* InputHandler.get_confirmation (panel_input.py 113-146)                  *)
(***************************************************************************)
RECURSIVE lstrip(_)
lstrip(s) == IF s # <<>> /\ IsSpace(s[1]) THEN lstrip(Tail(s)) ELSE s

RECURSIVE rstrip(_)
rstrip(s) ==
    IF s # <<>> /\ IsSpace(s[Len(s)]) THEN rstrip(SubSeq(s, 1, Len(s) - 1)) ELSE s

\* str.strip()
strip(s) == lstrip(rstrip(s))

\* ("\r", "\n")
EnterChars == {"\r", "\n"}

\* ("\b", "\x08"): the two literals are the same character
Backspace == "\\b"

YesAnswers == {<<"y">>, <<"y", "e", "s">>}

NoAnswers == {<<"n">>, <<"n", "o">>}

\* the loop as it would be if the typed text were only lower-cased before it
\* is compared, and not stripped: C25 does not hold of it
get_confirmation_without_strip(char) ==
    /\ in_chars' = Append(in_chars, char)
    /\ IF char \in EnterChars
       THEN LET answer == lower(user_input)
            IN  IF answer \in YesAnswers
                THEN user_input' = answer /\ confirmed' = Some(TRUE) /\ in_call' = "returned"
                ELSE IF answer \in NoAnswers
                THEN user_input' = answer /\ confirmed' = Some(FALSE) /\ in_call' = "returned"
                ELSE user_input' = <<>> /\ UNCHANGED <<confirmed, in_call>>
       ELSE IF char = Backspace
       THEN /\ user_input' = SubSeq(user_input, 1, Len(user_input) - 1)
            /\ UNCHANGED <<confirmed, in_call>>
       ELSE /\ user_input' = Append(user_input, char)
            /\ UNCHANGED <<confirmed, in_call>>

\* one turn of the while loop (lines 124-142) on the character captured
get_confirmation(char) ==
    /\ in_chars' = Append(in_chars, char)
    /\ IF char \in EnterChars
       THEN LET answer == lower(strip(user_input))
            IN  IF answer \in YesAnswers
                THEN user_input' = answer /\ confirmed' = Some(TRUE) /\ in_call' = "returned"
                ELSE IF answer \in NoAnswers
                THEN user_input' = answer /\ confirmed' = Some(FALSE) /\ in_call' = "returned"
                ELSE user_input' = <<>> /\ UNCHANGED <<confirmed, in_call>>
       ELSE IF char = Backspace
       THEN /\ user_input' = SubSeq(user_input, 1, Len(user_input) - 1)
            /\ UNCHANGED <<confirmed, in_call>>
       ELSE /\ user_input' = Append(user_input, char)
            /\ UNCHANGED <<confirmed, in_call>>

(***************************************************************************)
(* SpecConfirmation: one call of get_confirmation while the user types at  *)
(* most MaxKeys of the characters of Keys.                                 *)
(***************************************************************************)
MaxKeys == 5

\* what _get_single_character may return
Keys == {"y", "Y", "e", "s", "n", "o", " ", "\r", "\n", Backspace}

InInit ==
    /\ in_call = "reading"
    /\ user_input = <<>>
    /\ in_chars = <<>>
    /\ confirmed = None
    /\ EpIdle
    /\ SeIdle
    /\ SanIdle
    /\ CmpIdle
    /\ PtIdle
    /\ FiIdle
    /\ RunIdle

ReadCharacter ==
    /\ in_call = "reading"
    /\ Len(in_chars) < MaxKeys
    /\ \E char \in Keys : get_confirmation(char)
    /\ UNCHANGED <<pt_vars, fi_vars, san_vars, cmp_vars, ep_vars, se_vars, run_vars>>

InNext == ReadCharacter

SpecConfirmation == InInit /\ [][InNext]_vars


(***************************************************************************)
(* Spec: one run of main() (cli.py 539-599) in a directory holding at most *)
(* MaxFiles of the names of DirectoryPool, listed by os.listdir in the     *)
(* pool's order.                                                           *)
(***************************************************************************)
MaxFiles == 3

MaxEpisodes == 3

DirectoryPool ==
    <<<<"S", "1", "E", "1", ".", "m", "k", "v">>,
      <<"S", "1", "E", "2", ".", "a", "v", "i">>,
      <<"S", "1", "E", "3", ".", "m", "p", "4">>,
      <<"S", "2", "E", "1", ".", "m", "k", "v">>,
      <<"x", ".", "m", "k", "v">>,
      <<"w", ".", "w", "m", "v">>,
      <<"A", ".", "S", "0", "1", "E", "0", "1", ".", "n", "1", ".", "m", "k", "v">>>>

PoolNames == {DirectoryPool[k] : k \in 1..Len(DirectoryPool)}

Listings == {S \in SUBSET PoolNames : Cardinality(S) <= MaxFiles}

\* os.listdir(directory)
listdir(present) == SelectSeq(DirectoryPool, LAMBDA n : n \in present)

\* the directory_path arguments tried
Directories == {<<"d">>, <<"1", " ", "d">>}

\* the -s values tried (None: the flag is absent)
SeasonFlags == {None, Some(0), Some(1)}

ArgsSet ==
    [tmdb_id        : {1},
     directory_path : Directories,
     tvshow         : BOOLEAN,
     movie          : BOOLEAN,
     person         : BOOLEAN,
     nfo            : BOOLEAN,
     suffix         : {None},
     season         : SeasonFlags]

\* what TMDB may answer for season s: the episodes 1..k of a series named A
RemoteActors ==
    <<[name |-> "R1", type |-> "actor", role |-> "r1"],
      [name |-> "R2", type |-> "actor", role |-> "r2"]>>

RemoteEpisode(n) ==
    [series_name    |-> <<"A">>,
     episode_number |-> n,
     episode_name   |-> <<"n">> \o NatToStr(n),
     actors         |-> RemoteActors]

RemoteSeason(s, k) ==
    [series_name   |-> <<"A">>,
     season_number |-> s,
     episode_count |-> k,
     episodes      |-> [n \in 1..k |-> RemoteEpisode(n)],
     actors        |-> RemoteActors]

\* what the local store may hold for the season: nothing (no such season, or
\* a season without actors), or two actors
LocalStores ==
    {<<>>,
     <<[name |-> "L1", role |-> "l1"], [name |-> "L2", role |-> "l2"]>>}

\* MediaFilesOrganizer.dbactor_to_actor (cli.py 319-329), on the fields kept
dbactor_to_actor(dbactor) ==
    [name |-> dbactor.name, type |-> "actor", role |-> dbactor.role]

\* [mfo.dbactor_to_actor(person) for person in db_actors]
ConvertedActors(store) == [k \in 1..Len(store) |-> dbactor_to_actor(store[k])]

RemoteResponses(s) ==
    {RemoteSeason(s, k) : k \in 0..MaxEpisodes} \cup {RemoteSeason(s + 1, MaxEpisodes)}

Init ==
    /\ EpIdle
    /\ SeIdle
    /\ LibIdle
    /\ pc = "main"
    /\ ending = ""
    /\ exit_code = None
    /\ dir_exists \in BOOLEAN
    /\ fs \in (IF dir_exists THEN Listings ELSE {{}})
    /\ fs0 = fs
    /\ args = None
    /\ media_files = <<>>
    /\ season = None
    /\ episode_filelist = <<>>
    /\ data = None
    /\ warnings = FALSE
    /\ count_fails = 0
    /\ idx = 0
    /\ gates = <<>>
    /\ renames = <<>>
    /\ written = <<>>
    /\ downloads = <<>>
    /\ reported = <<>>
    /\ rename_row = [text |-> ""]
    /\ db_actors = <<>>
    /\ rendered = <<>>

\* sys.exit(code), or the end of main
Exit(code, how) ==
    /\ pc' = "exit"
    /\ exit_code' = Some(code)
    /\ ending' = how

Goto(next) ==
    /\ pc' = next
    /\ UNCHANGED <<exit_code, ending>>

Report(level, what) == Append(reported, [level |-> level, what |-> what])

\* main 544-565: the environment variables
LoadEnvironment ==
    /\ pc = "main"
    /\ \E api_key \in BOOLEAN, db_path \in BOOLEAN :
          IF ~api_key
          THEN reported' = Report("error", "TMDB_API_KEY") /\ Exit(1, "Failed")
          ELSE IF ~db_path
          THEN reported' = Report("error", "DB_PATH") /\ Exit(1, "Failed")
          ELSE UNCHANGED reported /\ Goto("parse_arguments")
    /\ UNCHANGED <<dir_exists, fs0, fs, args, media_files, season, episode_filelist, data,
                   warnings, count_fails, idx, gates, renames, written, downloads,
                   rename_row, db_actors, rendered, ep_vars, se_vars, lib_vars>>

BoolInt(b) == IF b THEN 1 ELSE 0

\* the parser as it would be if it only refused an invocation without any
\* mode flag: C18 does not hold of it
parse_arguments_at_least_one ==
    /\ pc = "parse_arguments"
    /\ \E a \in ArgsSet :
          /\ args' = a
          /\ IF BoolInt(a.tvshow) + BoolInt(a.movie) + BoolInt(a.person) = 0
             THEN reported' = Report("error", "mode") /\ Exit(1, "Failed")
             ELSE UNCHANGED reported /\ Goto("list_supported_files")
    /\ UNCHANGED <<dir_exists, fs0, fs, media_files, season, episode_filelist, data,
                   warnings, count_fails, idx, gates, renames, written, downloads,
                   rename_row, db_actors, rendered, ep_vars, se_vars, lib_vars>>

\* MediaFilesOrganizer.parse_arguments (cli.py 91-166)
parse_arguments ==
    /\ pc = "parse_arguments"
    /\ \E a \in ArgsSet :
          /\ args' = a
          /\ IF BoolInt(a.tvshow) + BoolInt(a.movie) + BoolInt(a.person) # 1
             THEN reported' = Report("error", "mode") /\ Exit(1, "Failed")
             ELSE UNCHANGED reported /\ Goto("list_supported_files")
    /\ UNCHANGED <<dir_exists, fs0, fs, media_files, season, episode_filelist, data,
                   warnings, count_fails, idx, gates, renames, written, downloads,
                   rename_row, db_actors, rendered, ep_vars, se_vars, lib_vars>>

supported_extensions ==
    {<<".", "m", "p", "4">>, <<".", "m", "k", "v">>, <<".", "a", "v", "i">>, <<".", "m", "4", "v">>, <<"w", "m", "v">>}

\* the filter of list_supported_files (every pool entry is a regular file)
SupportedFiles(directory, present) ==
    LET kept == SelectSeq(listdir(present),
                          LAMBDA n : lower(splitext_ext(n)) \in supported_extensions)
    IN  [k \in 1..Len(kept) |-> path_join(directory, kept[k])]

\* MediaFilesOrganizer.list_supported_files (cli.py 168-184), called at main 572;
\* its FileNotFoundError is caught at main 590
list_supported_files ==
    /\ pc = "list_supported_files"
    /\ LET found == SupportedFiles(args.directory_path, fs)
       IN  IF ~dir_exists
           THEN /\ reported' = Report("error", "DirectoryNotFound")
                /\ Exit(0, "Failed")
                /\ UNCHANGED media_files
           ELSE IF found = <<>>
           THEN /\ reported' = Report("error", "NoSupportedFiles")
                /\ Exit(0, "Failed")
                /\ UNCHANGED media_files
           ELSE /\ media_files' = found
                /\ UNCHANGED reported
                /\ Goto("dispatch")
    /\ UNCHANGED <<dir_exists, fs0, fs, args, season, episode_filelist, data,
                   warnings, count_fails, idx, gates, renames, written, downloads,
                   rename_row, db_actors, rendered, ep_vars, se_vars, lib_vars>>

\* main 583-599: the mode dispatch
dispatch ==
    /\ pc = "dispatch"
    /\ IF args.movie
       THEN reported' = Report("error", "MovieNotImplemented") /\ Exit(1, "Failed")
       ELSE IF args.tvshow
       THEN UNCHANGED reported /\ Goto("resolve_season")
       ELSE UNCHANGED reported /\ Exit(0, "Nothing")
    /\ UNCHANGED <<dir_exists, fs0, fs, args, media_files, season, episode_filelist, data,
                   warnings, count_fails, idx, gates, renames, written, downloads,
                   rename_row, db_actors, rendered, ep_vars, se_vars, lib_vars>>


(***************************************************************************)
(* tvshow() (cli.py 355-537)                                               *)
(***************************************************************************)

\* `if args.season:` is false for an absent flag and for -s 0
SeasonFlagIsTruthy(flag) == flag # None /\ flag[1] # 0

\* the season step as it would be if a mixed-seasons error were reported and
\* the run went on with the season found first: C2 does not hold of it
resolve_season_going_on ==
    /\ pc = "resolve_season"
    /\ LET r == IF SeasonFlagIsTruthy(args.season)
                THEN infer_season_from_filenames(media_files, args.season)
                ELSE infer_season_from_filenames(media_files, None)
       IN  IF r.kind = "ValueError" /\ r.error = "MixedSeasons"
           THEN /\ reported' = Report("error", r.error)
                /\ season' = Some(r.found)
                /\ Goto("infer_episodes")
           ELSE IF r.kind = "ValueError"
           THEN /\ reported' = Report("error", r.error)
                /\ Exit(1, "Failed")
                /\ UNCHANGED season
           ELSE /\ season' = Some(r.season)
                /\ UNCHANGED reported
                /\ Goto("infer_episodes")
    /\ UNCHANGED <<dir_exists, fs0, fs, args, media_files, episode_filelist, data,
                   warnings, count_fails, idx, gates, renames, written, downloads,
                   rename_row, db_actors, rendered, ep_vars, se_vars, lib_vars>>

\* tvshow 358-375
resolve_season ==
    /\ pc = "resolve_season"
    /\ LET r == IF SeasonFlagIsTruthy(args.season)
                THEN infer_season_from_filenames(media_files, args.season)
                ELSE infer_season_from_filenames(media_files, None)
       IN  IF r.kind = "ValueError"
           THEN /\ reported' = Report("error", r.error)
                /\ Exit(1, "Failed")
                /\ UNCHANGED season
           ELSE /\ season' = Some(r.season)
                /\ UNCHANGED reported
                /\ Goto("infer_episodes")
    /\ UNCHANGED <<dir_exists, fs0, fs, args, media_files, episode_filelist, data,
                   warnings, count_fails, idx, gates, renames, written, downloads,
                   rename_row, db_actors, rendered, ep_vars, se_vars, lib_vars>>

\* the loop of tvshow 382-387 over the outcomes of the calls, outcomes[i] being
\* that of infer_episode_number_from_filename(files[i]): the EpFiles appended,
\* the files warned about, and whether an exception other than ValueError
\* escaped the loop (the calls after it are then never made)
EpisodeLoopOver(files, outcomes) ==
    LET escapes == {i \in 1..Len(files) : outcomes[i].kind \notin {"ok", "ValueError"}}
        stop    == IF escapes = {} THEN Len(files) + 1 ELSE SetMin(escapes)
        done    == SubSeq(outcomes, 1, stop - 1)
        parsed  == SelectSeq(done, LAMBDA r : r.kind = "ok")
        failed  == {i \in 1..(stop - 1) : outcomes[i].kind = "ValueError"}
    IN  [raised |-> escapes # {},
         list   |-> [k \in 1..Len(parsed) |-> parsed[k].file],
         failed |-> SelectSeq(SubSeq(files, 1, stop - 1),
                              LAMBDA f : \E i \in failed : files[i] = f)]

EpisodeLoop(files) ==
    EpisodeLoopOver(files,
                    [i \in 1..Len(files) |-> infer_episode_number_from_filename(files[i])])

RECURSIVE ReportAll(_, _, _, _)
ReportAll(log, level, what, files) ==
    IF files = <<>> THEN log
    ELSE ReportAll(Append(log, [level |-> level, what |-> what, file |-> Head(files)]),
                   level, what, Tail(files))

\* tvshow 388-392 once the loop has ended with r
AfterEpisodeLoop(r, log, warn) ==
    IF r.raised
    THEN \* the IndexError is caught nowhere: main's finally, then a traceback
         /\ reported' = log
         /\ Exit(1, "Crashed")
         /\ UNCHANGED <<episode_filelist, warnings>>
    ELSE /\ episode_filelist' = r.list
         /\ warnings' = warn
         /\ reported' = IF Len(r.list) # Len(media_files)
                        THEN Append(log, [level |-> "warning", what |-> "SomeNotInferred"])
                        ELSE log
         /\ Goto(IF warn THEN "gate_episodes" ELSE "fetch_metadata")

EpisodeWarnings(r) ==
    AfterEpisodeLoop(r, ReportAll(reported, "warning", "NoEpisodeNumber", r.failed),
                     r.failed # <<>> \/ Len(r.list) # Len(media_files))

\* tvshow 378-392, up to the confirmation prompt
infer_episodes ==
    /\ pc = "infer_episodes"
    /\ EpisodeWarnings(EpisodeLoop(media_files))
    /\ UNCHANGED <<dir_exists, fs0, fs, args, media_files, season, data,
                   count_fails, idx, gates, renames, written, downloads,
                   rename_row, db_actors, rendered, ep_vars, se_vars, lib_vars>>

\* input_handler.get_confirmation(...) answering `proceed`, followed by
\* `if not proceed: sys.exit(0)`
Confirm(gate, proceed, next) ==
    /\ pc = gate
    /\ gates' = Append(gates, [gate |-> gate, accepted |-> proceed])
    /\ IF proceed THEN Goto(next) ELSE Exit(0, "Aborted")

\* tvshow 393-399
gate_episodes ==
    /\ \E proceed \in BOOLEAN : Confirm("gate_episodes", proceed, "fetch_metadata")
    /\ UNCHANGED <<dir_exists, fs0, fs, args, media_files, season, episode_filelist, data,
                   warnings, count_fails, idx, renames, written, downloads, reported,
                   rename_row, db_actors, rendered, ep_vars, se_vars, lib_vars>>

\* tvshow 401-436: tmdb.fetch_tvshow_season raises on a failed request; then
\* the local store is asked for the season's actors (428-436), [] when it
\* does not know the season
fetch_metadata ==
    /\ pc = "fetch_metadata"
    /\ \/ /\ reported' = Report("error", "FetchFailed")
          /\ Exit(1, "Failed")
          /\ UNCHANGED <<data, db_actors>>
       \/ \E d \in RemoteResponses(season[1]), store \in LocalStores :
             /\ data' = Some(d)
             /\ db_actors' = store
             /\ UNCHANGED reported
             /\ Goto("validate_metadata")
    /\ warnings' = FALSE
    /\ UNCHANGED <<dir_exists, fs0, fs, args, media_files, season, episode_filelist,
                   count_fails, idx, gates, renames, written, downloads,
                   rename_row, rendered, ep_vars, se_vars, lib_vars>>

\* the validation as it would be if the remote count were compared with the
\* number of files whose episode number was inferred: C16 does not hold of it
validate_metadata_counting_parsed ==
    /\ pc = "validate_metadata"
    /\ LET d      == data[1]
           count  == d.episode_count # Len(episode_filelist)
           number == d.season_number # season[1]
           log1   == IF count
                     THEN Append(reported, [level |-> "warning", what |-> "EpisodeCount",
                                            remote |-> d.episode_count,
                                            files |-> Len(episode_filelist)])
                     ELSE reported
           log2   == IF number
                     THEN Append(log1, [level |-> "warning", what |-> "SeasonNumber",
                                        remote |-> d.season_number,
                                        resolved |-> season[1]])
                     ELSE log1
       IN  /\ warnings' = (count \/ number)
           /\ reported' = log2
           /\ Goto(IF count \/ number THEN "gate_mismatch" ELSE "gate_proceed")
    /\ UNCHANGED <<dir_exists, fs0, fs, args, media_files, season, episode_filelist, data,
                   count_fails, idx, gates, renames, written, downloads,
                   rename_row, db_actors, rendered, ep_vars, se_vars, lib_vars>>

\* tvshow 438-450: the two checks
validate_metadata ==
    /\ pc = "validate_metadata"
    /\ LET d      == data[1]
           count  == d.episode_count # Len(media_files)
           number == d.season_number # season[1]
           log1   == IF count
                     THEN Append(reported, [level |-> "warning", what |-> "EpisodeCount",
                                            remote |-> d.episode_count,
                                            files |-> Len(media_files)])
                     ELSE reported
           log2   == IF number
                     THEN Append(log1, [level |-> "warning", what |-> "SeasonNumber",
                                        remote |-> d.season_number,
                                        resolved |-> season[1]])
                     ELSE log1
       IN  /\ warnings' = (count \/ number)
           /\ reported' = log2
           /\ Goto(IF count \/ number THEN "gate_mismatch" ELSE "gate_proceed")
    /\ UNCHANGED <<dir_exists, fs0, fs, args, media_files, season, episode_filelist, data,
                   count_fails, idx, gates, renames, written, downloads,
                   rename_row, db_actors, rendered, ep_vars, se_vars, lib_vars>>

\* tvshow 450-454
gate_mismatch ==
    /\ \E proceed \in BOOLEAN : Confirm("gate_mismatch", proceed, "match_files")
    /\ UNCHANGED <<dir_exists, fs0, fs, args, media_files, season, episode_filelist, data,
                   warnings, count_fails, idx, renames, written, downloads, reported,
                   rename_row, db_actors, rendered, ep_vars, se_vars, lib_vars>>

\* the step after a clean validation as it would be without its prompt: C1
\* does not hold of it
proceed_without_asking ==
    /\ pc = "gate_proceed"
    /\ Goto("match_files")
    /\ UNCHANGED <<dir_exists, fs0, fs, args, media_files, season, episode_filelist, data,
                   warnings, count_fails, idx, gates, renames, written, downloads, reported,
                   rename_row, db_actors, rendered, ep_vars, se_vars, lib_vars>>

\* tvshow 455-460
gate_proceed ==
    /\ \E proceed \in BOOLEAN : Confirm("gate_proceed", proceed, "match_files")
    /\ UNCHANGED <<dir_exists, fs0, fs, args, media_files, season, episode_filelist, data,
                   warnings, count_fails, idx, renames, written, downloads, reported,
                   rename_row, db_actors, rendered, ep_vars, se_vars, lib_vars>>

\* the lookup as it would be if it took the first record whatever its number:
\* C17 does not hold of it
FindFirstEpisode(episodes, ep_num) == IF episodes = <<>> THEN 0 ELSE 1

\* next((ep for ep in data["episodes"] if ep["episode_number"] == ep_num), None):
\* the position of the first such record, 0 when there is none
FindEpisode(episodes, ep_num) ==
    LET at == {k \in 1..Len(episodes) : episodes[k].episode_number = ep_num}
    IN  IF at = {} THEN 0 ELSE SetMin(at)

\* the body of the loop as it would be if the record were attached to every
\* file, the files without a record of their number getting the first one,
\* while only the files with such a record were given names: C29 does not
\* hold of it
MatchFileAttachingAlways(file, d, season_num, suffix) ==
    LET k == FindEpisode(d.episodes, file.episode_num)
    IN  IF k = 0
        THEN IF d.episodes = <<>> THEN file ELSE [file EXCEPT !.data = Some(1)]
        ELSE LET names == create_new_episode_filename(d.episodes[k], season_num,
                                                      file.ext, suffix)
             IN  [file EXCEPT !.new_filename = names[1],
                              !.naked_filename = names[2],
                              !.data = Some(k)]

\* the body of the loop of tvshow 463-468 for one file; file["data"] refers to
\* the record inside data["episodes"], kept here as its position
MatchFile(file, d, season_num, suffix) ==
    LET k == FindEpisode(d.episodes, file.episode_num)
    IN  IF k = 0 THEN file
        ELSE LET names == create_new_episode_filename(d.episodes[k], season_num,
                                                      file.ext, suffix)
             IN  [file EXCEPT !.new_filename = names[1],
                              !.naked_filename = names[2],
                              !.data = Some(k)]

\* tvshow 462-471
match_files ==
    /\ pc = "match_files"
    /\ episode_filelist' =
          [k \in 1..Len(episode_filelist) |->
              MatchFile(episode_filelist[k], data[1], season[1], args.suffix)]
    /\ Goto("gate_table")
    /\ UNCHANGED <<dir_exists, fs0, fs, args, media_files, season, data,
                   warnings, count_fails, idx, gates, renames, written, downloads,
                   reported, rename_row, db_actors, rendered, ep_vars, se_vars, lib_vars>>

\* tvshow 473-480
gate_table ==
    /\ \E proceed \in BOOLEAN :
          /\ Confirm("gate_table", proceed, "rename")
          /\ IF proceed
             THEN warnings' = FALSE /\ count_fails' = 0 /\ idx' = 1
             ELSE UNCHANGED <<warnings, count_fails, idx>>
    /\ UNCHANGED <<dir_exists, fs0, fs, args, media_files, season, episode_filelist, data,
                   renames, written, downloads, reported,
                   rename_row, db_actors, rendered, ep_vars, se_vars, lib_vars>>

\* os.rename(src, dst) inside one directory: the names present afterwards
Renamed(present, src, dst) == (present \ {src}) \cup {dst}

\* the iteration as it would be if a failed rename ended the loop: C4 does
\* not hold of it
rename_file_stopping ==
    /\ pc = "rename"
    /\ idx <= Len(episode_filelist)
    /\ LET file == episode_filelist[idx]
           src  == file.original_filename
           dst  == file.new_filename
       IN  IF dst # <<>>
           THEN \E can \in BOOLEAN :
                   LET ok == can /\ src \in fs
                   IN  /\ renames' = Append(renames, [file |-> idx,
                                                      src |-> path_join(file.path, src),
                                                      dst |-> path_join(file.path, dst),
                                                      ok |-> ok])
                       /\ fs' = IF ok THEN Renamed(fs, src, dst) ELSE fs
                       /\ episode_filelist' =
                             [episode_filelist EXCEPT
                                 ![idx].status = IF ok THEN "OK" ELSE "ERROR"]
                       /\ warnings' = (warnings \/ ~ok)
                       /\ count_fails' = IF ok THEN count_fails ELSE count_fails + 1
                       /\ idx' = IF ok THEN idx + 1 ELSE Len(episode_filelist) + 1
           ELSE /\ UNCHANGED <<renames, fs, episode_filelist, warnings, count_fails>>
                /\ idx' = idx + 1
    /\ Goto("rename")
    /\ UNCHANGED <<dir_exists, fs0, args, media_files, season, data, gates, written,
                   downloads, reported, rename_row, db_actors, rendered, ep_vars, se_vars, lib_vars>>

\* the iteration as it would be if the status were set after the try block,
\* whatever the outcome: C5 does not hold of it
rename_file_status_after_try ==
    /\ pc = "rename"
    /\ idx <= Len(episode_filelist)
    /\ LET file == episode_filelist[idx]
           src  == file.original_filename
           dst  == file.new_filename
       IN  IF dst # <<>>
           THEN \E can \in BOOLEAN :
                   LET ok == can /\ src \in fs
                   IN  /\ renames' = Append(renames, [file |-> idx,
                                                      src |-> path_join(file.path, src),
                                                      dst |-> path_join(file.path, dst),
                                                      ok |-> ok])
                       /\ fs' = IF ok THEN Renamed(fs, src, dst) ELSE fs
                       /\ episode_filelist' =
                             [episode_filelist EXCEPT ![idx].status = "OK"]
                       /\ warnings' = (warnings \/ ~ok)
                       /\ count_fails' = IF ok THEN count_fails ELSE count_fails + 1
           ELSE UNCHANGED <<renames, fs, episode_filelist, warnings, count_fails>>
    /\ idx' = idx + 1
    /\ Goto("rename")
    /\ UNCHANGED <<dir_exists, fs0, args, media_files, season, data, gates, written,
                   downloads, reported, rename_row, db_actors, rendered, ep_vars, se_vars, lib_vars>>

\* one iteration of the loop of tvshow 481-491.  os.rename fails when the
\* source is gone, and the system may refuse it for its own reasons.
rename_file ==
    /\ pc = "rename"
    /\ idx <= Len(episode_filelist)
    /\ LET file == episode_filelist[idx]
           src  == file.original_filename
           dst  == file.new_filename
       IN  IF dst # <<>>
           THEN \E can \in BOOLEAN :
                   LET ok == can /\ src \in fs
                   IN  /\ renames' = Append(renames, [file |-> idx,
                                                      src |-> path_join(file.path, src),
                                                      dst |-> path_join(file.path, dst),
                                                      ok |-> ok])
                       /\ fs' = IF ok THEN Renamed(fs, src, dst) ELSE fs
                       /\ episode_filelist' =
                             [episode_filelist EXCEPT
                                 ![idx].status = IF ok THEN "OK" ELSE "ERROR"]
                       /\ warnings' = (warnings \/ ~ok)
                       /\ count_fails' = IF ok THEN count_fails ELSE count_fails + 1
           ELSE UNCHANGED <<renames, fs, episode_filelist, warnings, count_fails>>
    /\ idx' = idx + 1
    /\ Goto("rename")
    /\ UNCHANGED <<dir_exists, fs0, args, media_files, season, data, gates, written,
                   downloads, reported, rename_row, db_actors, rendered, ep_vars, se_vars, lib_vars>>

\* tvshow 494-498: the status row after the loop
rename_done ==
    /\ pc = "rename"
    /\ idx > Len(episode_filelist)
    /\ rename_row' = IF ~warnings THEN [text |-> "Done"]
                      ELSE [text |-> "errors", count |-> count_fails]
    /\ Goto("gate_nfo")
    /\ UNCHANGED <<dir_exists, fs0, fs, args, media_files, season, episode_filelist, data,
                   warnings, count_fails, idx, gates, renames, written, downloads,
                   reported, db_actors, rendered, ep_vars, se_vars, lib_vars>>

\* the sidecar gate as it would be if declining it skipped the NFO stage and
\* went on to the thumbnail gate: C3 does not hold of it
gate_nfo_skipping ==
    /\ \E proceed \in BOOLEAN :
          /\ pc = "gate_nfo"
          /\ gates' = Append(gates, [gate |-> "gate_nfo", accepted |-> proceed])
          /\ Goto(IF proceed THEN "season_nfo" ELSE "gate_thumbs")
    /\ UNCHANGED <<dir_exists, fs0, fs, args, media_files, season, episode_filelist, data,
                   warnings, count_fails, idx, renames, written, downloads, reported,
                   rename_row, db_actors, rendered, ep_vars, se_vars, lib_vars>>

\* tvshow 500-503
gate_nfo ==
    /\ \E proceed \in BOOLEAN : Confirm("gate_nfo", proceed, "season_nfo")
    /\ UNCHANGED <<dir_exists, fs0, fs, args, media_files, season, episode_filelist, data,
                   warnings, count_fails, idx, renames, written, downloads, reported,
                   rename_row, db_actors, rendered, ep_vars, se_vars, lib_vars>>

SeasonNfoName == <<"s", "e", "a", "s", "o", "n", ".", "n", "f", "o">>

NfoSuffix == <<".", "n", "f", "o">>

ThumbSuffix == <<"-", "t", "h", "u", "m", "b", ".", "j", "p", "g">>

\* tvshow 505-512: the season document
write_season_nfo ==
    /\ pc = "season_nfo"
    /\ LET new_actors == ConvertedActors(db_actors) \o data[1].actors
       IN  /\ data' = Some([data[1] EXCEPT !.actors = new_actors])
           /\ rendered' = Append(rendered, [file |-> 0, actors |-> new_actors,
                                            path |-> <<>>, raised |-> FALSE])
    /\ written' = Append(written, path_join(args.directory_path, SeasonNfoName))
    /\ fs' = fs \cup {SeasonNfoName}
    /\ idx' = 1
    /\ Goto("episode_nfo")
    /\ UNCHANGED <<dir_exists, fs0, args, media_files, season, episode_filelist,
                   warnings, count_fails, gates, renames, downloads, reported,
                   rename_row, db_actors, ep_vars, se_vars, lib_vars>>

\* one iteration of the loop of tvshow 514-523.  generate_tvshow_episode
\* probes the file at <path>/<new_filename> (nfo_generator.py 189); when no
\* such file exists the probe raises: a FileNotFoundError is caught at main
\* 590, any other exception is caught nowhere.  Before that, lines 516-518
\* put the local actors in front of the actor list of episode["data"], which
\* is the record inside data["episodes"] itself.
write_episode_nfo ==
    /\ pc = "episode_nfo"
    /\ idx <= Len(episode_filelist)
    /\ LET file == episode_filelist[idx]
       IN  IF file.data = None
           THEN /\ idx' = idx + 1
                /\ Goto("episode_nfo")
                /\ UNCHANGED <<written, fs, reported, data, rendered>>
           ELSE LET k          == file.data[1]
                    new_actors == IF Len(db_actors) # 0
                                  THEN ConvertedActors(db_actors)
                                           \o data[1].episodes[k].actors
                                  ELSE data[1].episodes[k].actors
                    filepath   == path_join(file.path, file.new_filename)
                    call       == [file |-> idx, actors |-> new_actors, path |-> filepath]
                IN  /\ data' = Some([data[1] EXCEPT !.episodes[k].actors = new_actors])
                    /\ IF file.new_filename \notin fs
                       THEN /\ \/ /\ reported' = Report("error", "FileNotFoundError")
                                  /\ Exit(0, "Failed")
                               \/ /\ UNCHANGED reported
                                  /\ Exit(1, "Crashed")
                            /\ rendered' = Append(rendered, call @@ [raised |-> TRUE])
                            /\ UNCHANGED <<written, fs, idx>>
                       ELSE /\ rendered' = Append(rendered, call @@ [raised |-> FALSE])
                            /\ written' = Append(written,
                                   path_join(file.path, file.naked_filename \o NfoSuffix))
                            /\ fs' = fs \cup {file.naked_filename \o NfoSuffix}
                            /\ idx' = idx + 1
                            /\ Goto("episode_nfo")
                            /\ UNCHANGED reported
    /\ UNCHANGED <<dir_exists, fs0, args, media_files, season, episode_filelist,
                   warnings, count_fails, gates, renames, downloads,
                   rename_row, db_actors, ep_vars, se_vars, lib_vars>>

\* tvshow 525-526
nfo_done ==
    /\ pc = "episode_nfo"
    /\ idx > Len(episode_filelist)
    /\ Goto("gate_thumbs")
    /\ UNCHANGED <<dir_exists, fs0, fs, args, media_files, season, episode_filelist, data,
                   warnings, count_fails, idx, gates, renames, written, downloads,
                   reported, rename_row, db_actors, rendered, ep_vars, se_vars, lib_vars>>

\* the thumbnail gate as it would be if declining it ended the run as a
\* completed one: C21 does not hold of it
gate_thumbs_declined_is_done ==
    /\ \E proceed \in BOOLEAN :
          /\ pc = "gate_thumbs"
          /\ gates' = Append(gates, [gate |-> "gate_thumbs", accepted |-> proceed])
          /\ IF proceed THEN Goto("thumbs") ELSE Exit(0, "Done")
          /\ idx' = IF proceed THEN 1 ELSE idx
    /\ UNCHANGED <<dir_exists, fs0, fs, args, media_files, season, episode_filelist, data,
                   warnings, count_fails, renames, written, downloads, reported,
                   rename_row, db_actors, rendered, ep_vars, se_vars, lib_vars>>

\* tvshow 528-531
gate_thumbs ==
    /\ \E proceed \in BOOLEAN :
          /\ Confirm("gate_thumbs", proceed, "thumbs")
          /\ idx' = IF proceed THEN 1 ELSE idx
    /\ UNCHANGED <<dir_exists, fs0, fs, args, media_files, season, episode_filelist, data,
                   warnings, count_fails, renames, written, downloads, reported,
                   rename_row, db_actors, rendered, ep_vars, se_vars, lib_vars>>

\* what requests.get may do (download_image, cli.py 339-346): answer 200,
\* answer another status, or raise
DownloadOutcomes == {"200", "not200", "raised"}

\* one iteration of the loop of tvshow 533-535 with download_image (331-346)
download_thumb ==
    /\ pc = "thumbs"
    /\ idx <= Len(episode_filelist)
    /\ LET file == episode_filelist[idx]
       IN  IF file.data = None
           THEN /\ idx' = idx + 1
                /\ Goto("thumbs")
                /\ UNCHANGED <<written, fs, reported, downloads>>
           ELSE \E outcome \in DownloadOutcomes :
                   /\ downloads' = Append(downloads, [file |-> idx, outcome |-> outcome])
                   /\ IF outcome = "200"
                      THEN /\ written' = Append(written,
                                 path_join(file.path, file.naked_filename \o ThumbSuffix))
                           /\ fs' = fs \cup {file.naked_filename \o ThumbSuffix}
                           /\ idx' = idx + 1
                           /\ Goto("thumbs")
                           /\ UNCHANGED reported
                      ELSE IF outcome = "not200"
                      THEN /\ reported' = Append(reported,
                                 [level |-> "error", what |-> "DownloadFailed", file |-> idx])
                           /\ idx' = idx + 1
                           /\ Goto("thumbs")
                           /\ UNCHANGED <<written, fs>>
                      ELSE /\ Exit(1, "Crashed")
                           /\ UNCHANGED <<written, fs, reported, idx>>
    /\ UNCHANGED <<dir_exists, fs0, args, media_files, season, episode_filelist, data,
                   warnings, count_fails, gates, renames, rename_row, db_actors, rendered, ep_vars, se_vars, lib_vars>>

\* tvshow 537 and main 596-599
thumbs_done ==
    /\ pc = "thumbs"
    /\ idx > Len(episode_filelist)
    /\ Exit(0, "Done")
    /\ UNCHANGED <<dir_exists, fs0, fs, args, media_files, season, episode_filelist, data,
                   warnings, count_fails, idx, gates, renames, written, downloads,
                   reported, rename_row, db_actors, rendered, ep_vars, se_vars, lib_vars>>

Next ==
    \/ LoadEnvironment
    \/ parse_arguments
    \/ list_supported_files
    \/ dispatch
    \/ resolve_season
    \/ infer_episodes
    \/ gate_episodes
    \/ fetch_metadata
    \/ validate_metadata
    \/ gate_mismatch
    \/ gate_proceed
    \/ match_files
    \/ gate_table
    \/ rename_file
    \/ rename_done
    \/ gate_nfo
    \/ write_season_nfo
    \/ write_episode_nfo
    \/ nfo_done
    \/ gate_thumbs
    \/ download_thumb
    \/ thumbs_done

Spec == Init /\ [][Next]_vars

(***************************************************************************)
(* Properties of one run (Spec)                                            *)
(***************************************************************************)
ArgsParsed == DOMAIN args # {}

Accepted(k) == gates[k].accepted

WasReported(what) == \E k \in 1..Len(reported) : reported[k].what = what

LastReported(level, what) ==
    /\ reported # <<>>
    /\ reported[Len(reported)].level = level
    /\ reported[Len(reported)].what = what

ValidationWarned == WasReported("EpisodeCount") \/ WasReported("SeasonNumber")

NothingMutated ==
    /\ fs = fs0
    /\ renames = <<>>
    /\ written = <<>>
    /\ downloads = <<>>

ModeCount == BoolInt(args.tvshow) + BoolInt(args.movie) + BoolInt(args.person)

\* the run ended on the fatal error `what`, reported last, having changed nothing
FatalEnd(what) ==
    /\ pc = "exit"
    /\ ending = "Failed"
    /\ LastReported("error", what)
    /\ NothingMutated

\* what season inference answers for the files found and the -s flag given
SeasonOutcome ==
    infer_season_from_filenames(media_files,
        IF SeasonFlagIsTruthy(args.season) THEN args.season ELSE None)

\* C2: each fatal condition (invalid mode selection, directory missing, no
\* supported files, mixed seasons, season not inferable, remote fetch failure)
\* is reported and ends the run with nothing renamed and no file written.
C2_FatalEndsWithoutMutation ==
    /\ (ArgsParsed /\ ModeCount # 1) => FatalEnd("mode")
    /\ (ArgsParsed /\ ModeCount = 1 /\ pc # "list_supported_files" /\ ~dir_exists)
          => FatalEnd("DirectoryNotFound")
    /\ (ArgsParsed /\ ModeCount = 1 /\ pc # "list_supported_files" /\ dir_exists
          /\ \A n \in fs0 : lower(splitext_ext(n)) \notin supported_extensions)
          => FatalEnd("NoSupportedFiles")
    /\ (media_files # <<>> /\ args.tvshow /\ pc \notin {"dispatch", "resolve_season"}
          /\ SeasonOutcome.kind = "ValueError")
          => FatalEnd(SeasonOutcome.error)
    /\ WasReported("FetchFailed") => FatalEnd("FetchFailed")

C2_Witness ==
    /\ pc = "exit"
    /\ LastReported("error", "MixedSeasons")
    /\ Len(media_files) >= 2

\* the directory after the successful renames of the log, applied in order
RECURSIVE AfterRenames(_, _)
AfterRenames(present, log) ==
    IF log = <<>> THEN present
    ELSE AfterRenames(IF Head(log).ok
                      THEN (present \ {basename(Head(log).src)})
                               \cup {basename(Head(log).dst)}
                      ELSE present,
                      Tail(log))

\* C3: a declined gate is the last thing of the run: the run ends Aborted there.
\* Declined before the rename stage, the directory is as it was; the sidecar
\* gate declined, every renamed file is under its new name and no NFO or
\* thumbnail was written; the thumbnail gate declined, nothing was downloaded.
C3_DeclineEndsRun ==
    \A k \in 1..Len(gates) :
        ~Accepted(k) =>
            /\ k = Len(gates)
            /\ pc = "exit"
            /\ ending = "Aborted"
            /\ gates[k].gate \in {"gate_episodes", "gate_mismatch", "gate_proceed",
                                  "gate_table"} => NothingMutated
            /\ gates[k].gate = "gate_nfo" =>
                  /\ written = <<>>
                  /\ downloads = <<>>
                  /\ fs = AfterRenames(fs0, renames)
                  /\ \A r \in 1..Len(renames) :
                        renames[r].ok => basename(renames[r].dst) \in fs
            /\ gates[k].gate = "gate_thumbs" => downloads = <<>>

C3_Witness ==
    /\ gates # <<>>
    /\ gates[Len(gates)].gate = "gate_nfo"
    /\ ~Accepted(Len(gates))
    /\ \E r \in 1..Len(renames) : renames[r].ok
    /\ \E r \in 1..Len(renames) : ~renames[r].ok

\* the positions below n of the files that have a new filename, in list order
WithNewNameBelow(n) ==
    SelectSeq([i \in 1..(n - 1) |-> i],
              LAMBDA i : episode_filelist[i].new_filename # <<>>)

RenameStageOver == rename_row.text # ""

\* C4: the rename attempts made are, in order and once each, those of the
\* files with a new filename: during the stage those of the files already
\* passed, after it those of all the files, failures included.
C4_RenameNeverStopsEarly ==
    LET attempted == [k \in 1..Len(renames) |-> renames[k].file]
    IN  /\ pc = "rename" => attempted = WithNewNameBelow(idx)
        /\ RenameStageOver => attempted = WithNewNameBelow(Len(episode_filelist) + 1)

C4_Witness ==
    /\ RenameStageOver
    /\ Len(renames) = 3
    /\ renames[1].ok
    /\ ~renames[2].ok
    /\ renames[3].ok
    /\ [k \in 1..3 |-> episode_filelist[k].status] = <<"OK", "ERROR", "OK">>

\* C5: after the rename stage a file with a new filename has status OK when
\* its rename succeeded and ERROR when it failed, a file without one has no
\* status, the status row shows Done when nothing failed and otherwise the
\* number of files with status ERROR, and every file renamed is still under
\* its new name and no longer under its old one.
C5_StatusAfterRename ==
    RenameStageOver =>
        LET n      == Len(episode_filelist)
            errors == {i \in 1..n : episode_filelist[i].status = "ERROR"}
        IN  /\ \A i \in 1..n :
                  IF episode_filelist[i].new_filename = <<>>
                  THEN episode_filelist[i].status = NoValue
                  ELSE \E r \in 1..Len(renames) :
                          /\ renames[r].file = i
                          /\ episode_filelist[i].status =
                                IF renames[r].ok THEN "OK" ELSE "ERROR"
            /\ count_fails = Cardinality(errors)
            /\ rename_row = IF errors = {} THEN [text |-> "Done"]
                            ELSE [text |-> "errors", count |-> Cardinality(errors)]
            /\ \A r \in 1..Len(renames) :
                  renames[r].ok =>
                      /\ basename(renames[r].dst) \in fs
                      /\ renames[r].src # renames[r].dst
                            => basename(renames[r].src) \notin fs

C5_Witness ==
    /\ RenameStageOver
    /\ \E i \in 1..Len(episode_filelist) : episode_filelist[i].status = "OK"
    /\ \E i \in 1..Len(episode_filelist) : episode_filelist[i].status = "ERROR"
    /\ \E i \in 1..Len(episode_filelist) :
          episode_filelist[i].status = NoValue /\ episode_filelist[i].new_filename = <<>>


\* C7: when the -s flag carries an expected season N, the run either fails
\* with the mixed-seasons error or goes on with the season resolved to N.
C7_ExpectedSeasonIsResolved ==
    (/\ ArgsParsed
     /\ media_files # <<>>
     /\ args.tvshow
     /\ args.season # None
     /\ pc \notin {"dispatch", "resolve_season"})
        => \/ season = args.season
           \/ ending = "Failed" /\ LastReported("error", "MixedSeasons")

(***************************************************************************)
(* Properties of infer_season_from_filenames (SpecSeason)                  *)
(***************************************************************************)

\* the positions of the files whose name matches the season+episode pattern
SeasonMatches(files) ==
    {i \in 1..Len(files) : Search(SeasonPatternAt, basename(files[i])) # NoMatchAt}

\* the season number a matching file carries
SeasonOf(file) == ToInt(Search(SeasonPatternAt, basename(file))[1][1])

\* C6: without an expected season, the first matching filename seeds the
\* season; when a later matching filename carries another season the call
\* fails with the mixed-seasons error naming the first such file, and
\* otherwise it returns the seeded season; filenames that do not match count
\* for nothing.
C6_FirstMatchSeeds ==
    (se_call = "returned" /\ se_expected = None /\ SeasonMatches(se_files) # {}) =>
        LET first     == SetMin(SeasonMatches(se_files))
            seed      == SeasonOf(se_files[first])
            conflicts == {i \in SeasonMatches(se_files) : SeasonOf(se_files[i]) # seed}
        IN  IF conflicts = {}
            THEN se_result = [kind |-> "ok", season |-> seed]
            ELSE se_result = [kind |-> "ValueError", error |-> "MixedSeasons",
                              found |-> seed,
                              current |-> SeasonOf(se_files[SetMin(conflicts)]),
                              culprit |-> se_files[SetMin(conflicts)]]

C6_Witness ==
    /\ se_call = "returned"
    /\ se_expected = None
    /\ Len(se_files) = 3
    /\ SeasonMatches(se_files) = {2, 3}
    /\ se_result.kind = "ValueError"
    /\ se_result.error = "MixedSeasons"
    /\ se_result.culprit = se_files[3]

\* C8: the call fails with the season-not-inferable error exactly when no
\* filename matches the pattern and no expected season was given; with an
\* expected season and no matching filename it returns the expected season.
C8_NotInferableExactly ==
    se_call = "returned" =>
        /\ (se_result.kind = "ValueError" /\ se_result.error = "SeasonNotInferable")
              <=> (SeasonMatches(se_files) = {} /\ se_expected = None)
        /\ (SeasonMatches(se_files) = {} /\ se_expected # None)
              => se_result = [kind |-> "ok", season |-> se_expected[1]]

C8_Witness ==
    /\ se_call = "returned"
    /\ se_files # <<>>
    /\ SeasonMatches(se_files) = {}
    /\ se_expected = Some(0)
    /\ se_result = [kind |-> "ok", season |-> 0]

(***************************************************************************)
(* Properties of infer_episode_number_from_filename (SpecEpisode)          *)
(***************************************************************************)

\* the rules other than the generic standalone number, by position in the list
SpecificRules == {1, 2, 3, 4, 5, 7}

\* the number rule n finds in s; the leading-number rule captures nothing, its
\* number is the run of digits it matched
RuleNumber(n, s) ==
    IF n = 5
    THEN ToInt(SubSeq(s, 1, IF DigitsAt(s, 1, 2) /\ CharAt(s, 3, Whitespace) THEN 2 ELSE 1))
    ELSE ToInt(PatternSearch(n, s)[1][1])

\* C9: whenever a specific rule (S..E.., E.., Ep.., EP.., leading number, dash)
\* matches the filename, the call returns the number of the first specific
\* rule that matches, never the generic rule's.
C9_SpecificRuleWins ==
    ep_call = "returned" =>
        LET hits == {n \in SpecificRules : PatternSearch(n, ep_filename) # NoMatchAt}
        IN  hits # {} =>
               /\ ep_result.kind = "ok"
               /\ ep_result.file.episode_num = RuleNumber(SetMin(hits), ep_filename)

\* C10: the call either returns a record whose episode number is at least 1
\* or fails with ValueError.
C10_PositiveOrValueError ==
    ep_call = "returned" =>
        \/ ep_result.kind = "ok" /\ ep_result.file.episode_num >= 1
        \/ ep_result.kind = "ValueError"


(***************************************************************************)
(* Properties of the stages of tvshow (Spec), continued                    *)
(***************************************************************************)

\* the inference loop of tvshow has been left, one way or another
InferenceOver ==
    /\ ArgsParsed
    /\ media_files # <<>>
    /\ args.tvshow
    /\ season # None
    /\ pc # "infer_episodes"

\* the positions of the media files for which inference returns no record
NotInferred ==
    {i \in 1..Len(media_files) :
        infer_episode_number_from_filename(media_files[i]).kind # "ok"}

\* the names of the media files for which inference returns a record, in order
InferredNames ==
    LET parsed == SelectSeq(media_files,
                      LAMBDA f : infer_episode_number_from_filename(f).kind = "ok")
    IN  [k \in 1..Len(parsed) |-> basename(parsed[k])]

EpisodeGateShown ==
    \/ pc = "gate_episodes"
    \/ \E k \in 1..Len(gates) : gates[k].gate = "gate_episodes"

\* C11: once the inference loop is over, every file whose episode number
\* could not be inferred has a warning naming it, the run has gone on to the
\* episode-inference gate when there is such a file and past it without
\* showing it when there is none, and once the gate is accepted the episode
\* file list is exactly the files that parsed, in order.
C11_InferenceFailureIsWarning ==
    InferenceOver =>
        /\ \A i \in NotInferred :
              \E k \in 1..Len(reported) :
                 reported[k] = [level |-> "warning", what |-> "NoEpisodeNumber",
                                file |-> media_files[i]]
        /\ EpisodeGateShown <=> NotInferred # {}
        /\ (pc # "gate_episodes" /\ (gates = <<>> \/ Accepted(1)))
              => [k \in 1..Len(episode_filelist) |->
                     episode_filelist[k].original_filename] = InferredNames

\* the same with the runs set aside in which an inference call raised
\* something other than ValueError
C11_WhenOnlyValueError ==
    (\A i \in 1..Len(media_files) :
        infer_episode_number_from_filename(media_files[i]).kind \in {"ok", "ValueError"})
        => C11_InferenceFailureIsWarning


(***************************************************************************)
(* Properties of _sanitize_filename (SpecSanitize)                         *)
(***************************************************************************)

\* the nine characters / \ : * ? " < > |
NineChars == {"/", "\\", ":", "*", "?", "\"", "<", ">", "|"}

\* s with the elements of drop deleted, the others kept in order
Without(s, drop) == SelectSeq(s, LAMBDA c : c \notin drop)

\* C12: the sanitizer returns its input with every occurrence of the nine
\* characters / \ : * ? " < > | deleted and every other character kept, in
\* order.
C12_SanitizerRemovesNine ==
    san_call = "returned" => san_result = Without(san_filename, NineChars)

(***************************************************************************)
(* Properties of create_new_episode_filename (SpecCompose)                 *)
(***************************************************************************)

\* n written with at least two digits
Pad2(n) == IF n < 10 THEN <<"0", DigitChar(n)>> ELSE NatToStr(n)

\* "{series_name}[ {suffix}].S{season:02}E{episode:02}.{episode_name}" for a
\* the suffix part being there when the suffix is a non-empty string
FormatOf(a) ==
    a.series_name
      \o (IF a.suffix # None /\ a.suffix[1] # <<>> THEN <<" ">> \o a.suffix[1] ELSE <<>>)
      \o <<".", "S">> \o Pad2(a.season) \o <<"E">> \o Pad2(a.episode_number)
      \o <<".">> \o a.episode_name

\* C13: the composer returns the sanitized form of the format above followed
\* by the extension (and, as naked filename, of the format alone), and
\* sanitizing what it returns changes nothing.
C13_ComposerFormat ==
    cmp_call = "returned" =>
        LET a == cmp_args[1]
            r == cmp_result[1]
        IN  /\ r[1] = sanitize_filename(FormatOf(a) \o a.ext)
            /\ r[2] = sanitize_filename(FormatOf(a))
            /\ sanitize_filename(r[1]) = r[1]
            /\ sanitize_filename(r[2]) = r[2]

C13_Witness ==
    /\ cmp_call = "returned"
    /\ cmp_args[1].suffix = Some(<<"a", "|", "b">>)
    /\ cmp_args[1].series_name = <<"A", ":", "b">>
    /\ cmp_args[1].season = 10
    /\ cmp_args[1].episode_number = 3
    /\ cmp_result[1][1] # FormatOf(cmp_args[1]) \o cmp_args[1].ext


(***************************************************************************)
(* Properties of list_supported_files within a run (Spec)                  *)
(***************************************************************************)

\* .mp4, .mkv, .avi, .m4v, .wmv
FiveExtensions ==
    {<<".", "m", "p", "4">>, <<".", "m", "k", "v">>, <<".", "a", "v", "i">>,
     <<".", "m", "4", "v">>, <<".", "w", "m", "v">>}

ScanOver == ArgsParsed /\ ModeCount = 1 /\ pc # "list_supported_files"

\* C14: the scan fails when the directory does not exist, fails when no file
\* of the directory has one of the five extensions (lower-cased), and
\* otherwise returns exactly the files that have one.
C14_ScannerAcceptsFive ==
    ScanOver =>
        LET want == SelectSeq(listdir(fs0),
                              LAMBDA n : lower(splitext_ext(n)) \in FiveExtensions)
        IN  IF ~dir_exists
            THEN media_files = <<>> /\ LastReported("error", "DirectoryNotFound")
            ELSE IF want = <<>>
            THEN media_files = <<>> /\ LastReported("error", "NoSupportedFiles")
            ELSE media_files = [k \in 1..Len(want) |->
                                   path_join(args.directory_path, want[k])]


\* C15: in a run given the -n/--nfo flag no media file is renamed.
C15_NfoOnlySkipsRename ==
    (ArgsParsed /\ args.nfo) =>
        /\ \A r \in 1..Len(renames) : renames[r].ok => renames[r].src = renames[r].dst
        /\ \A n \in fs0 : n \in fs


ValidationOver == data # None /\ pc # "validate_metadata"

\* the warning of the episode-count check, naming the remote count and the
\* number of media files found
CountWarning ==
    [level |-> "warning", what |-> "EpisodeCount",
     remote |-> data[1].episode_count, files |-> Len(media_files)]

\* C16: after validation the episode-count warning, naming the remote count
\* and the number of all media files found, has been raised exactly when the
\* two differ, and then nothing is renamed before the mismatch gate is
\* accepted.
C16_CountAgainstAllFiles ==
    ValidationOver =>
        /\ (data[1].episode_count # Len(media_files))
              <=> \E k \in 1..Len(reported) : reported[k] = CountWarning
        /\ WasReported("EpisodeCount")
              <=> \E k \in 1..Len(reported) : reported[k] = CountWarning
        /\ (data[1].episode_count # Len(media_files) /\ (renames # <<>> \/ fs # fs0))
              => \E g \in 1..Len(gates) :
                    gates[g] = [gate |-> "gate_mismatch", accepted |-> TRUE]

\* the remote count equals the number of parsed files and differs from the
\* number of files found: the warning was raised and a rename followed it
C16_Witness ==
    /\ ValidationOver
    /\ Len(episode_filelist) < Len(media_files)
    /\ data[1].episode_count = Len(episode_filelist)
    /\ \E k \in 1..Len(reported) : reported[k] = CountWarning
    /\ \E r \in 1..Len(renames) : renames[r].ok


MatchOver ==
    \/ pc = "gate_table"
    \/ \E g \in 1..Len(gates) : gates[g].gate = "gate_table"

\* the positions of the episode records carrying the number ep_num
RecordsFor(ep_num) ==
    {k \in 1..Len(data[1].episodes) : data[1].episodes[k].episode_number = ep_num}

\* the files written for the file at position i: its NFO and its thumbnail
SidecarsOf(i) ==
    LET file == episode_filelist[i]
    IN  {path_join(file.path, file.naked_filename \o NfoSuffix),
         path_join(file.path, file.naked_filename \o ThumbSuffix)}

\* C17: after matching, a file carries the record whose episode_number is
\* its inferred number and a new filename, or, when there is no such record,
\* an empty new filename and no record; and every rename
\* attempt, every episode NFO or thumbnail written and every download is for
\* a file that carries a record.
C17_OnlyMatchedFilesProceed ==
    MatchOver =>
        LET matched == {i \in 1..Len(episode_filelist) : episode_filelist[i].data # None}
        IN  /\ \A i \in 1..Len(episode_filelist) :
                  LET file == episode_filelist[i]
                  IN  IF RecordsFor(file.episode_num) = {}
                      THEN /\ file.data = None
                           /\ file.new_filename = <<>>
                           /\ file.naked_filename = <<>>
                      ELSE /\ file.data # None
                           /\ file.data[1] \in RecordsFor(file.episode_num)
                           /\ file.new_filename # <<>>
                           /\ file.naked_filename # <<>>
            /\ \A r \in 1..Len(renames) : renames[r].file \in matched
            /\ \A d \in 1..Len(downloads) : downloads[d].file \in matched
            /\ \A w \in 1..Len(written) :
                  \/ written[w] = path_join(args.directory_path, SeasonNfoName)
                  \/ \E i \in matched : written[w] \in SidecarsOf(i)

\* a run that went through the three stages with a file that has no record
C17_Witness ==
    /\ pc = "exit"
    /\ ending = "Done"
    /\ \E i \in 1..Len(episode_filelist) : episode_filelist[i].data = None
    /\ \E r \in 1..Len(renames) : renames[r].ok
    /\ \E d \in 1..Len(downloads) : downloads[d].outcome = "200"
    /\ Len(written) >= 3


\* C18: an invocation with no mode flag or with more than one ends at once
\* with the configuration error, exit status 1: the directory has not been
\* scanned, no season resolved, nothing fetched, no prompt shown, nothing
\* changed; an invocation with exactly one mode flag never gets that error.
C18_ExactlyOneMode ==
    ArgsParsed =>
        IF ModeCount # 1
        THEN /\ pc = "exit"
             /\ exit_code = Some(1)
             /\ reported = <<[level |-> "error", what |-> "mode"]>>
             /\ media_files = <<>>
             /\ season = None
             /\ episode_filelist = <<>>
             /\ data = None
             /\ gates = <<>>
             /\ NothingMutated
        ELSE ~WasReported("mode")

\* two mode flags at once, on a directory that holds media files
C18_Witness ==
    /\ ArgsParsed
    /\ args.tvshow
    /\ args.movie
    /\ pc = "exit"
    /\ dir_exists
    /\ \E n \in fs0 : lower(splitext_ext(n)) \in supported_extensions


\* C19: every NFO document, the season's and each matched episode's, is
\* rendered with the local-store actors, in store order and once each,
\* followed by the remote actors in their order; and when the local store
\* has nothing for the season no warning is raised and every actor list
\* stays as fetched.
C19_LocalActorsPrepended ==
    /\ \A n \in 1..Len(rendered) :
          rendered[n].actors = ConvertedActors(db_actors) \o RemoteActors
    /\ (data # None /\ db_actors = <<>>) =>
          /\ data[1].actors = RemoteActors
          /\ \A k \in 1..Len(data[1].episodes) : data[1].episodes[k].actors = RemoteActors
          /\ \A k \in 1..Len(reported) :
                reported[k].what \notin {"LocalSeasonNotFound", "NoLocalActors"}

\* the same for the runs in which no two files carry the same episode record
C19_WhenRecordsNotShared ==
    (\A i, j \in 1..Len(episode_filelist) :
        (i # j /\ episode_filelist[i].data # None)
            => episode_filelist[i].data # episode_filelist[j].data)
        => C19_LocalActorsPrepended


ThumbsAccepted ==
    \E g \in 1..Len(gates) : gates[g] = [gate |-> "gate_thumbs", accepted |-> TRUE]

\* the positions below n of the files that carry an episode record, in order
WithRecordBelow(n) ==
    SelectSeq([i \in 1..(n - 1) |-> i], LAMBDA i : episode_filelist[i].data # None)

\* C20: once the thumbnail gate is accepted, a download is attempted for
\* every matched file, in order, whatever became of the earlier ones (during
\* the stage for those already passed, at the end of the run for all of
\* them); a download that did not succeed is reported for its file, a report
\* is made for no other file, and a download that succeeded wrote
\* <naked_filename>-thumb.jpg in the file's directory.
C20_DownloadFailureIsPerFile ==
    ThumbsAccepted =>
        LET attempted == [d \in 1..Len(downloads) |-> downloads[d].file]
            failed    == SelectSeq(attempted,
                            LAMBDA i : \E d \in 1..Len(downloads) :
                                          downloads[d].file = i /\ downloads[d].outcome # "200")
            blamed    == SelectSeq(reported, LAMBDA e : e.what = "DownloadFailed")
        IN  /\ pc = "thumbs" => attempted = WithRecordBelow(idx)
            /\ pc = "exit" => attempted = WithRecordBelow(Len(episode_filelist) + 1)
            /\ [b \in 1..Len(blamed) |-> blamed[b].file] = failed
            /\ \A d \in 1..Len(downloads) :
                  downloads[d].outcome = "200" =>
                     LET file == episode_filelist[downloads[d].file]
                     IN  /\ \E w \in 1..Len(written) :
                               written[w] = path_join(file.path,
                                                file.naked_filename \o ThumbSuffix)
                         /\ (file.naked_filename \o ThumbSuffix) \in fs

\* the same for the runs in which no request raised
C20_WhenNoRequestRaises ==
    (\A d \in 1..Len(downloads) : downloads[d].outcome # "raised")
        => C20_DownloadFailureIsPerFile


(***************************************************************************)
(* Properties of one run (Spec), continued                                 *)
(***************************************************************************)

\* the statements of main() and tvshow() in program order
Statements ==
    <<"main", "parse_arguments", "list_supported_files", "dispatch",
      "resolve_season", "infer_episodes", "gate_episodes", "fetch_metadata",
      "validate_metadata", "gate_mismatch", "gate_proceed", "match_files",
      "gate_table", "rename", "gate_nfo", "season_nfo", "episode_nfo",
      "gate_thumbs", "thumbs", "exit">>

PositionOf(at) == CHOOSE k \in 1..Len(Statements) : Statements[k] = at

\* the stage a statement works at: 1 resolving the season, 2 episode
\* inference, 3 fetching the metadata, 4 validating, 5 matching the files,
\* 6 renaming, 7 writing the sidecars, 8 fetching the thumbnails, 9 the end
StageOf(at) ==
    CASE at \in {"main", "parse_arguments", "list_supported_files", "dispatch"} -> 0
      [] at = "resolve_season" -> 1
      [] at \in {"infer_episodes", "gate_episodes"} -> 2
      [] at = "fetch_metadata" -> 3
      [] at \in {"validate_metadata", "gate_mismatch", "gate_proceed"} -> 4
      [] at \in {"match_files", "gate_table"} -> 5
      [] at = "rename" -> 6
      [] at \in {"gate_nfo", "season_nfo", "episode_nfo"} -> 7
      [] at \in {"gate_thumbs", "thumbs"} -> 8
      [] at = "exit" -> 9

GateNames == [g \in 1..Len(gates) |-> gates[g].gate]

\* the run got into tvshow()
InTvShow == pc # "exit" /\ StageOf(pc) >= 1

\* how the run ended: the ending and the gates answered
EndOfTvShow ==
    /\ ending \in {"Done", "Aborted", "Failed", "Crashed"}
    /\ ending = "Aborted" <=> (gates # <<>> /\ ~Accepted(Len(gates)))
    /\ \A g \in 1..(Len(gates) - 1) : Accepted(g)
    /\ ending = "Done" =>
          /\ \A g \in 1..Len(gates) : Accepted(g)
          /\ \E validation \in {"gate_mismatch", "gate_proceed"} :
                LET asked == <<validation, "gate_table", "gate_nfo", "gate_thumbs">>
                IN  GateNames \in {asked, <<"gate_episodes">> \o asked}
          /\ (WasReported("NoEpisodeNumber") \/ WasReported("SomeNotInferred"))
                => GateNames[1] = "gate_episodes"

\* C21: a TV-show run takes the stages in their order, from one stage to the
\* same or the next one and never back, until it ends; it ends as Done,
\* Aborted or failed (by an error the program reported, or by one raised up
\* to the interpreter), Aborted exactly when the gate asked last was declined;
\* and Done is reached only from the thumbnail stage, after the validation
\* gate, the rename-table gate, the sidecar gate and the thumbnail gate were
\* accepted in this order, preceded by the episode-inference gate when
\* episode inference warned.
C21_StagesInOrder ==
    [][InTvShow =>
          /\ PositionOf(pc') >= PositionOf(pc)
          /\ pc' # "exit" => StageOf(pc') \in {StageOf(pc), StageOf(pc) + 1}
          /\ pc' = "exit" =>
                /\ EndOfTvShow'
                /\ ending' = "Done" => pc = "thumbs"
      ]_vars

\* a run that ended as Done after the episode-inference gate was shown
C21_Witness ==
    /\ pc = "exit"
    /\ ending = "Done"
    /\ Len(gates) = 5
    /\ gates[1].gate = "gate_episodes"


NfoAccepted ==
    \E g \in 1..Len(gates) : gates[g] = [gate |-> "gate_nfo", accepted |-> TRUE]

\* the sidecar gate was accepted and the run is past the sidecar stage, or
\* has ended
SidecarStageLeft == NfoAccepted /\ pc \notin {"season_nfo", "episode_nfo"}

SeasonNfoPath == path_join(args.directory_path, SeasonNfoName)

\* the positions of the files that carry an episode record, in order
Matched == WithRecordBelow(Len(episode_filelist) + 1)

EpisodeNfoPath(i) ==
    path_join(episode_filelist[i].path, episode_filelist[i].naked_filename \o NfoSuffix)

\* every file found was parsed and matched, every file was renamed, and the
\* run went through every gate
CleanRun ==
    /\ pc = "exit"
    /\ ending = "Done"
    /\ Len(episode_filelist) = Len(media_files)
    /\ Len(Matched) = Len(episode_filelist)
    /\ Len(renames) = Len(episode_filelist)
    /\ \A r \in 1..Len(renames) : renames[r].ok

\* C22: once the sidecar gate was accepted and the stage is left, the files
\* written are season.nfo in the target directory, once, and after it
\* <naked_filename>.nfo in its file's directory for each matched file, in
\* order (then the thumbnails); and a run in which every file parsed and
\* matched, every rename succeeded and every gate was accepted leaves every
\* one of its N files with status OK and has written N episode NFO files and
\* one season.nfo.
C22_SidecarsWritten ==
    SidecarStageLeft =>
        LET n == Len(Matched)
        IN  /\ Len(written) >= 1 + n
            /\ written[1] = SeasonNfoPath
            /\ \A w \in 2..Len(written) : written[w] # SeasonNfoPath
            /\ \A k \in 1..n : written[1 + k] = EpisodeNfoPath(Matched[k])
            /\ CleanRun =>
                  /\ \A i \in 1..Len(episode_filelist) : episode_filelist[i].status = "OK"
                  /\ n = Len(media_files)
                  /\ Len(SelectSeq(written, LAMBDA w : w = SeasonNfoPath)) = 1
                  /\ Len(SelectSeq(written,
                            LAMBDA w : \E k \in 1..n : w = EpisodeNfoPath(Matched[k])
                                                       /\ w # SeasonNfoPath)) = n

\* the same for the runs in which the file of every matched file is at its
\* new path when the sidecar stage begins
C22_WhenNoRenameFailed ==
    (\A r \in 1..Len(renames) : renames[r].ok) => C22_SidecarsWritten


\* the path the file at position i is renamed to
TargetOf(i) == path_join(episode_filelist[i].path, episode_filelist[i].new_filename)

\* C26: after matching, two different files that have a new filename have
\* different target paths, and no two renames of the run have the same
\* target.
C26_DistinctTargets ==
    MatchOver =>
        /\ \A i, j \in 1..Len(episode_filelist) :
              (/\ i # j
               /\ episode_filelist[i].new_filename # <<>>
               /\ episode_filelist[j].new_filename # <<>>) => TargetOf(i) # TargetOf(j)
        /\ \A r, q \in 1..Len(renames) : r # q => renames[r].dst # renames[q].dst

\* the same for the runs in which no two parsed files have the same episode
\* number and the same extension
C26_WhenEpisodesDistinct ==
    (\A i, j \in 1..Len(episode_filelist) :
        i # j => \/ episode_filelist[i].episode_num # episode_filelist[j].episode_num
                 \/ episode_filelist[i].ext # episode_filelist[j].ext)
        => C26_DistinctTargets


\* two outcomes of episode inference are the same: the same number, or the
\* same failure
SameOutcome(a, b) ==
    /\ a.kind = b.kind
    /\ a.kind = "ok" => a.file.episode_num = b.file.episode_num

\* C27: for every path the scanner hands to the run, episode inference on the
\* path has the outcome of episode inference on the path's base name.
C27_EpisodeFromBaseName ==
    \A i \in 1..Len(media_files) :
        SameOutcome(infer_episode_number_from_filename(media_files[i]),
                    infer_episode_number_from_filename(basename(media_files[i])))


\* the files a stage has acted on so far
RenamedFiles == {renames[r].file : r \in 1..Len(renames)}

RenderedFiles == {rendered[n].file : n \in 1..Len(rendered)} \ {0}

DownloadedFiles == {downloads[d].file : d \in 1..Len(downloads)}

\* C29: at every point of a run, every parsed file carries an episode record
\* exactly when its new filename is not empty and exactly when its naked
\* filename is not empty, and then the new filename is the naked filename
\* followed by the file's extension; so the files renamed, the files
\* rendered and the files downloaded for are all among the matched files,
\* and each stage that ran to its end has acted on all of them.
C29_MatchMarkersAgree ==
    LET with_record == {i \in 1..Len(episode_filelist) : episode_filelist[i].data # None}
        with_name   == {i \in 1..Len(episode_filelist) :
                           episode_filelist[i].new_filename # <<>>}
        with_naked  == {i \in 1..Len(episode_filelist) :
                           episode_filelist[i].naked_filename # <<>>}
    IN  /\ with_record = with_name
        /\ with_name = with_naked
        /\ \A i \in with_record :
              episode_filelist[i].new_filename =
                 episode_filelist[i].naked_filename \o episode_filelist[i].ext
        /\ RenamedFiles \subseteq with_name
        /\ RenderedFiles \subseteq with_name
        /\ DownloadedFiles \subseteq with_name
        /\ (pc = "exit" /\ ending = "Done") =>
              /\ RenamedFiles = with_record
              /\ RenderedFiles = with_name
              /\ DownloadedFiles = with_name

\* a run through the three stages with a matched file and an unmatched one
C29_Witness ==
    /\ pc = "exit"
    /\ ending = "Done"
    /\ \E i, j \in 1..Len(episode_filelist) :
          /\ episode_filelist[i].data # None
          /\ episode_filelist[i].new_filename # <<>>
          /\ episode_filelist[j].data = None
          /\ episode_filelist[j].new_filename = <<>>
    /\ RenamedFiles # {}
    /\ RenamedFiles = DownloadedFiles


\* the calls of the episode renderer so far
EpisodeCalls == SelectSeq(rendered, LAMBDA c : c.file # 0)

CalledFor == [n \in 1..Len(EpisodeCalls) |-> EpisodeCalls[n].file]

\* C30: the episode renderer is called with <path>/<new filename> of the
\* file it is called for; while the sidecar loop runs it has been called
\* once for each file with a record that the loop has passed, in order; and
\* once the stage is left it has been called once for every file with a
\* record, in order, whatever the status of the file's rename.
C30_RenderedWhateverStatus ==
    /\ \A n \in 1..Len(EpisodeCalls) : EpisodeCalls[n].path = TargetOf(EpisodeCalls[n].file)
    /\ pc = "episode_nfo" => CalledFor = WithRecordBelow(idx)
    /\ SidecarStageLeft => CalledFor = Matched

\* what holds in every run: the calls are for the files with a record, once
\* each and in order, up to the end of the list or to the first call that
\* raises; a call raises exactly when no file is at its path, and only a
\* call for a file whose rename was not done can raise
C30_UpToTheFirstRaise ==
    /\ \A n \in 1..Len(EpisodeCalls) :
          /\ EpisodeCalls[n].path = TargetOf(EpisodeCalls[n].file)
          /\ EpisodeCalls[n].raised => n = Len(EpisodeCalls)
          /\ EpisodeCalls[n].raised =>
                /\ episode_filelist[EpisodeCalls[n].file].new_filename \notin fs
                /\ episode_filelist[EpisodeCalls[n].file].status = "ERROR"
    /\ pc = "episode_nfo" => CalledFor = WithRecordBelow(idx)
    /\ SidecarStageLeft =>
          \/ CalledFor = Matched
          \/ /\ EpisodeCalls # <<>>
             /\ EpisodeCalls[Len(EpisodeCalls)].raised
             /\ CalledFor = SubSeq(Matched, 1, Len(CalledFor))


(***************************************************************************)
(* Properties of season inference (SpecSeason), continued                  *)
(***************************************************************************)

\* where the season pattern matches first in s (0: nowhere)
MarkerAt(s) ==
    LET hits == {i \in 1..Len(s) : SeasonPatternAt(s, i) # NoMatchAt}
    IN  IF hits = {} THEN 0 ELSE SetMin(hits)

\* where the episode digits of the marker at position i begin
MarkerEpisodeAt(s, i) == i + 2 + Len(SeasonPatternAt(s, i)[1][1])

\* the episode digits of the marker at position i, as a number
MarkerEpisode(s, i) ==
    LET g == MarkerEpisodeAt(s, i)
    IN  ToInt(SubSeq(s, g, IF DigitsAt(s, g, 2) THEN g + 1 ELSE g))

\* C28: every file whose name the season pattern accepts gets an episode
\* number from episode inference, and it is the number written by the
\* episode digits of that marker.
C28_SeasonMarkerGivesEpisode ==
    \A k \in 1..Len(se_files) :
        LET name == basename(se_files[k])
            i    == MarkerAt(name)
        IN  i # 0 =>
               LET r == infer_episode_number_from_filename(se_files[k])
               IN  /\ r.kind = "ok"
                   /\ r.file.episode_num = MarkerEpisode(name, i)

\* the same for the files given without a directory whose marker is written
\* with the capital letters S and E
C28_WhenMarkerIsCapitalSE ==
    \A k \in 1..Len(se_files) :
        LET name == basename(se_files[k])
            i    == MarkerAt(name)
        IN  (/\ i # 0
             /\ name = se_files[k]
             /\ name[i] = "S"
             /\ name[MarkerEpisodeAt(name, i) - 1] = "E") =>
               LET r == infer_episode_number_from_filename(se_files[k])
               IN  /\ r.kind = "ok"
                   /\ r.file.episode_num = MarkerEpisode(name, i)


(***************************************************************************)
(* Properties of PTDubMetadata.fetch_actors (SpecFetchActors)              *)
(***************************************************************************)

\* the URLs of the scraped actors that have one, in list order
UrlsOf(atores) ==
    LET with == SelectSeq(atores, LAMBDA a : a.url # None)
    IN  [k \in 1..Len(with) |-> with[k].url[1]]

\* C23: fetch_actors returns one Actor per scraped actor, in the same order
\* (the scraped page's name for an actor with a URL, the season page's name
\* for one without); scrape_actor is called once for each actor that has a
\* URL, in order, and for no other; a missing role becomes "Unknown"; an
\* empty list gives an empty result.
C23_OneActorPerScrapedActor ==
    pt_call = "returned" =>
        /\ pt_result.kind = "ok"
        /\ Len(pt_result.actors) = Len(pt_atores)
        /\ \A i \in 1..Len(pt_atores) :
              LET scraped == pt_atores[i]
                  actor   == pt_result.actors[i]
              IN  /\ actor.name = IF scraped.url # None
                                  THEN scrape_actor(scraped.url[1]).nome
                                  ELSE scraped.nome
                  /\ actor.role = IF scraped.role = None THEN "Unknown"
                                  ELSE scraped.role[1]
        /\ pt_scraped = UrlsOf(pt_atores)
        /\ pt_atores = <<>> => pt_result.actors = <<>>

\* the same for the lists in which every actor without a URL has a name
C23_WhenNamesNotEmpty ==
    (\A i \in 1..Len(pt_atores) : pt_atores[i].url = None => pt_atores[i].nome # <<>>)
        => C23_OneActorPerScrapedActor


(***************************************************************************)
(* Properties of FileInfo.get_media_info (SpecMediaInfo)                   *)
(***************************************************************************)

\* C24: for a video track of d milliseconds, durationinseconds is the whole
\* number of seconds in d, and duration is "<m>m <s>s" for the one pair m, s
\* with 60*m + s = durationinseconds and 0 <= s < 60; 120000 ms gives 120
\* and "2m 0s".
C24_DurationFields ==
    fi_call = "returned" =>
        LET d    == fi_duration
            secs == fi_result[1].durationinseconds
        IN  /\ 1000 * secs <= d
            /\ d < 1000 * (secs + 1)
            /\ \E m \in 0..secs, s \in 0..59 :
                  /\ 60 * m + s = secs
                  /\ fi_result[1].duration =
                        NatToStr(m) \o <<"m", " ">> \o NatToStr(s) \o <<"s">>
            /\ d = 120000 =>
                  /\ secs = 120
                  /\ fi_result[1].duration = <<"2", "m", " ", "0", "s">>

\* the track of the test: 120000 ms
C24_Witness ==
    /\ fi_call = "returned"
    /\ fi_duration = 120000
    /\ fi_result[1].duration = <<"2", "m", " ", "0", "s">>


(***************************************************************************)
(* Properties of InputHandler.get_confirmation (SpecConfirmation)          *)
(***************************************************************************)

\* the text typed, trimmed and lower-cased
Answer == lower(strip(user_input))

\* C25: at every character captured while the call is reading: the call
\* returns exactly when the character is Enter and the typed text, trimmed
\* and lower-cased, is y, yes, n or no, and then returns True for y and yes
\* and False for n and no; Enter on any other text empties the text and the
\* call goes on reading; a backspace removes the last character of the text
\* and nothing else; any other character is added at the end of the text.
C25_ReturnsOnValidEnter ==
    [][in_call = "reading" =>
          LET char == in_chars'[Len(in_chars')]
          IN  /\ in_call' = "returned"
                    <=> (char \in EnterChars /\ Answer \in YesAnswers \cup NoAnswers)
              /\ in_call' = "returned" => confirmed' = Some(Answer \in YesAnswers)
              /\ in_call' # "returned" =>
                    /\ in_call' = "reading"
                    /\ confirmed' = None
                    /\ user_input' =
                          IF char \in EnterChars THEN <<>>
                          ELSE IF char = Backspace
                          THEN SubSeq(user_input, 1, Len(user_input) - 1)
                          ELSE user_input \o <<char>>
      ]_vars

\* the call returned True after an Enter that was refused and a backspace
\* that corrected the text
C25_Witness ==
    /\ in_call = "returned"
    /\ confirmed = Some(TRUE)
    /\ \E i, j \in 1..(Len(in_chars) - 1) :
          /\ i < j
          /\ in_chars[i] \in EnterChars
          /\ in_chars[j] = Backspace
          /\ in_chars[j - 1] \notin EnterChars \cup {Backspace}


====
